---- MODULE Spec2Model ----
(***************************************************************************)
(* R3 - Record. Run. Repeat.                                               *)
(*                                                                         *)
(* Session controller (background service worker), replay engine (player  *)
(* content script) and popup outcome tracking, as one state machine.       *)
(* Step indices are 0-based as in the source; sequences are 1-based, so    *)
(* step i of a list s is s[i + 1].                                         *)
(***************************************************************************)
EXTENDS Integers, Sequences, FiniteSets, TLC

\* ------------------------------------------------------------------ bounds
MaxSteps == 3
MaxSessions == 2
MaxNavs == 2
MaxQueue == 1
MaxDups == 1
MaxEls == 2
MaxFrames == 2
MaxTicks == 2
MaxLen == 2
MaxOptions == 2
MaxClasses == 2
MaxParts == 3
MaxCell == 3
MaxRecorded == 3

\* ------------------------------------------------------------- vocabulary
Null == "null"
Tab == "tab"
NoIndex == -1

Actions == {"OPEN", "CLICK"}

\* Step lists the popup can hand over: a recording starts with OPEN
\* (pushed by R3Popup.startRecording), an imported list may start with any
\* element action; the steps after the first are element actions.
StepLists ==
  { [i \in 1..n |-> IF i = 1 THEN a ELSE "CLICK"] : n \in 1..MaxSteps, a \in Actions }

ElementLists == { s \in StepLists : s[1] # "OPEN" }

\* Action texts of imported steps: an element action in another spelling, a
\* WAIT without locator, and a text that names no action.
KindSteps == { " click", "WAIT", "Frob" }

KindLists == UNION { [ 1..n -> KindSteps ] : n \in 1..MaxSteps }

Slice(s, from) == SubSeq(s, from + 1, Len(s))

RemoveAt(s, k) == SubSeq(s, 1, k - 1) \o SubSeq(s, k + 1, Len(s))

VARIABLES
  popup,            \* R3Popup.state: mode, steps, continueOnError
  playbackResults,  \* R3Popup.playbackResults: status per step
  state,            \* background state object
  tasks,            \* suspended async handlers of the background
  player,           \* window.R3Player of the page in the tab (if any)
  loops,            \* suspended playSteps() activations of that player
  queue,            \* chrome.runtime messages player -> background, in flight
  tabLoading,       \* the tab is between a navigation and status 'complete'
  session,          \* number of playback sessions started so far
  navs,             \* number of page navigations so far
  reports,          \* history: reports emitted since the session started
  stopped,          \* history: STOP_PLAYBACK was handled in this session
  interrupted,      \* history: step in flight when STOP_PLAYBACK reached the player
  torn,             \* history: step in flight when the page was torn down
  resumeFailed,     \* history: first step that could not be resumed
  recorder,         \* window.R3Recorder of the page in the tab (if any)
  tab,              \* the tab itself: closed or not, and signals after the close
  delivered,        \* history: messages that have reached their receiver
  res,              \* one run of the player's resolver (waitForElement)
  act,              \* one action of the player on its resolved element
  gen,              \* one call of a SelectorUtils function
  csv,              \* one export of the popup's steps to a CSV file and its import
  store             \* chrome.storage.local and those who write r3Steps while recording

\* What the existing playback actions read and write.
playback == << popup, playbackResults, state, tasks, player, loops, queue,
               tabLoading, session, navs, reports, stopped, interrupted, torn,
               resumeFailed >>

playback_but_tasks ==
  << popup, playbackResults, state, player, loops, queue, tabLoading, session,
     navs, reports, stopped, interrupted, torn, resumeFailed >>

\* What they leave alone.
others == << recorder, tab, delivered, res, act, gen, csv, store >>

vars == << popup, playbackResults, state, tasks, player, loops, queue,
           tabLoading, session, navs, reports, stopped, interrupted, torn,
           resumeFailed, recorder, tab, delivered, res, act, gen, csv, store >>

\* ---------------------------------------------------------------- messages
StepCompleteMsg(index, status) ==
  [ type |-> "STEP_COMPLETE", index |-> index, status |-> status,
    success |-> FALSE, failedStep |-> NoIndex, totalSteps |-> 0 ]

PlaybackCompleteMsg(success, failedStep, totalSteps) ==
  [ type |-> "PLAYBACK_COMPLETE", index |-> NoIndex, status |-> "",
    success |-> success, failedStep |-> failedStep, totalSteps |-> totalSteps ]

\* ------------------------------------------------------------------- popup
\* R3Popup.highlightStep applied to the outcomes array r.
highlightStep(r, index, status) ==
  LET r1 == IF index >= 0 /\ index < Len(r)
            THEN [r EXCEPT ![index + 1] = status] ELSE r
      nextIndex == index + 1
  IN  IF nextIndex < Len(r1) /\ r1[nextIndex + 1] = "pending"
      THEN [r1 EXCEPT ![nextIndex + 1] = "running"]
      ELSE r1

\* R3Popup.handleMessage, case STEP_COMPLETE: the outcomes after message m.
PopupResultsAfter(r, m) ==
  IF m.type = "STEP_COMPLETE"
  THEN highlightStep(r, m.index, IF m.status = "success" THEN "success" ELSE "failed")
  ELSE r

RECURSIVE ResultsAfterAll(_, _)
ResultsAfterAll(r, ms) ==
  IF ms = << >> THEN r
  ELSE ResultsAfterAll(PopupResultsAfter(r, Head(ms)), Tail(ms))

\* R3Popup.handleMessage, case PLAYBACK_COMPLETE: the popup leaves playing mode.
PopupAfterAll(ms) ==
  IF \E k \in 1..Len(ms) : ms[k].type = "PLAYBACK_COMPLETE"
  THEN [popup EXCEPT !.mode = "idle"] ELSE popup

\* forwardToPopup for the messages ms, in order: the popup handles each.
ForwardToPopup(ms) ==
  /\ playbackResults' = ResultsAfterAll(playbackResults, ms)
  /\ popup' = PopupAfterAll(ms)

\* ------------------------------------------------------------------ player
NoPlayer ==
  [ exists |-> FALSE, isPlaying |-> FALSE, steps |-> << >>,
    continueOnError |-> FALSE, indexOffset |-> 0 ]

\* R3Player constructor, run when content/player.js is injected into a page
\* that has no window.R3Player yet.
NewPlayer == [ NoPlayer EXCEPT !.exists = TRUE ]

\* Global index of the step a playSteps() activation is executing, if any.
InFlight ==
  IF \E k \in 1..Len(loops) : loops[k].pc = "exec"
  THEN LET k == CHOOSE j \in 1..Len(loops) : loops[j].pc = "exec"
       IN  loops[k].i + player.indexOffset
  ELSE NoIndex

\* R3Player.reportStepComplete
reportStepComplete(index, status) ==
  StepCompleteMsg(index + player.indexOffset, status)

\* R3Player.reportPlaybackComplete
reportPlaybackComplete(success, failedStep, totalSteps) ==
  PlaybackCompleteMsg(success,
                      IF failedStep >= 0 THEN failedStep + player.indexOffset
                                         ELSE failedStep,
                      totalSteps + player.indexOffset)

\* The page is destroyed by a navigation: the content script, its player and
\* every suspended activation go with it; messages already sent stay in flight.
TearDown ==
  /\ player' = NoPlayer
  /\ loops' = << >>
  /\ tabLoading' = TRUE

\* R3Player.start without its test of isPlaying.
PlayerStartAlways(steps, continueOnError, indexOffset) ==
  IF steps = << >>
  THEN LET m == PlaybackCompleteMsg(TRUE, NoIndex, indexOffset)
       IN  /\ player' = [ player EXCEPT !.steps = steps,
                            !.continueOnError = continueOnError,
                            !.indexOffset = indexOffset, !.isPlaying = FALSE ]
           /\ queue' = Append(queue, m)
           /\ reports' = Append(reports, m)
           /\ loops' = loops
  ELSE /\ player' = [ player EXCEPT !.steps = steps,
                        !.continueOnError = continueOnError,
                        !.indexOffset = indexOffset, !.isPlaying = TRUE ]
       /\ loops' = Append(loops, [ i |-> 0, allSuccess |-> TRUE,
                                   failedStep |-> NoIndex, pc |-> "exec",
                                   step |-> steps[1] ])
       /\ UNCHANGED queue
       /\ reports' = reports

\* R3Player.start, up to the first suspension of playSteps(), as delivered by
\* the player's onMessage listener (case START_PLAYBACK).
PlayerStart(steps, continueOnError, indexOffset) ==
  IF player.isPlaying
  THEN /\ UNCHANGED << player, loops, queue >>
       /\ reports' = reports
  ELSE IF steps = << >>
  THEN \* the for loop is skipped: playback is complete at once
       LET m == PlaybackCompleteMsg(TRUE, NoIndex, indexOffset)
       IN  /\ player' = [ player EXCEPT !.steps = steps,
                            !.continueOnError = continueOnError,
                            !.indexOffset = indexOffset, !.isPlaying = FALSE ]
           /\ queue' = Append(queue, m)
           /\ reports' = Append(reports, m)
           /\ loops' = loops
  ELSE /\ player' = [ player EXCEPT !.steps = steps,
                        !.continueOnError = continueOnError,
                        !.indexOffset = indexOffset, !.isPlaying = TRUE ]
       /\ loops' = Append(loops, [ i |-> 0, allSuccess |-> TRUE,
                                   failedStep |-> NoIndex, pc |-> "exec",
                                   step |-> steps[1] ])
       /\ UNCHANGED queue
       /\ reports' = reports

\* The 13 cases of the switch in R3Player.executeStep.
ActionKinds ==
  { "OPEN", "CLICK", "DBLCLICK", "RIGHTCLICK", "TYPE", "TYPE_CHAR", "CLEAR",
    "SELECT", "CHECK", "UNCHECK", "PRESS", "WAIT", "ASSERT_EXISTS" }

\* (step.action || '').toUpperCase().trim(), on the action texts used here.
normalise(action) ==
  CASE action = " click" -> "CLICK"
    [] action = "Frob" -> "FROB"
    [] OTHER -> action

\* executeStep with a switch that has no default case: an action text that
\* names no action does nothing and the step succeeds.
executeStepNoDefault(step, found, isPlaying) ==
  LET action == normalise(step)
  IN  IF action \notin ActionKinds
      THEN [ ok |-> TRUE, resolver |-> FALSE, waited |-> FALSE ]
      ELSE IF action \in {"WAIT", "OPEN"}
      THEN [ ok |-> TRUE, resolver |-> FALSE, waited |-> TRUE ]
      ELSE [ ok |-> found /\ isPlaying, resolver |-> TRUE, waited |-> TRUE ]

\* R3Player.executeStep: how the step's action ends and what it called on the
\* way.  A WAIT step stands for one without a locator (a fixed delay), which
\* ends when its timer fires; the other listed actions begin with
\* waitForElement, which throws AbortError at the first tick that sees
\* isPlaying false and an Error when found is false; any other action text
\* throws at once.
executeStep(step, found, isPlaying) ==
  LET action == normalise(step)
  IN  IF action \notin ActionKinds
      THEN [ ok |-> FALSE, resolver |-> FALSE, waited |-> FALSE ]
      ELSE IF action \in {"WAIT", "OPEN"}
      THEN [ ok |-> TRUE, resolver |-> FALSE, waited |-> TRUE ]
      ELSE [ ok |-> found /\ isPlaying, resolver |-> TRUE, waited |-> TRUE ]

\* R3Player.playSteps: executeStep(step, i) of activation l settles; found
\* tells whether the resolver finds a visible element within its budget.
PlayStepsExecuted(l, found) ==
  /\ l \in 1..Len(loops)
  /\ loops[l].pc = "exec"
  /\ Len(queue) < MaxQueue
  /\ LET lp == loops[l]
         ok == executeStep(lp.step, found, player.isPlaying).ok
         sc == reportStepComplete(lp.i, IF ok THEN "success" ELSE "failed")
         pcm == reportPlaybackComplete(FALSE, lp.i, Len(player.steps))
     IN  IF ok
         THEN /\ loops' = [ loops EXCEPT ![l].pc = "delay" ]
              /\ queue' = Append(queue, sc)
              /\ reports' = Append(reports, sc)
              /\ UNCHANGED player
         ELSE IF player.continueOnError
         THEN /\ loops' = [ loops EXCEPT ![l].pc = "delay",
                                         ![l].allSuccess = FALSE,
                                         ![l].failedStep = lp.i ]
              /\ queue' = Append(queue, sc)
              /\ reports' = Append(reports, sc)
              /\ UNCHANGED player
         ELSE \* reportPlaybackComplete, return; start() then clears isPlaying
              /\ loops' = RemoveAt(loops, l)
              /\ queue' = queue \o << sc, pcm >>
              /\ reports' = reports \o << sc, pcm >>
              /\ player' = [ player EXCEPT !.isPlaying = FALSE ]
  /\ UNCHANGED << popup, playbackResults, state, tasks, tabLoading, session,
                  navs, stopped, interrupted, torn, resumeFailed >>

\* R3Player.playSteps: the inter-step delay of activation l elapses; the for
\* loop advances, and either the next step starts or the loop is left and
\* playback is reported complete.
PlayStepsDelayed(l) ==
  /\ l \in 1..Len(loops)
  /\ loops[l].pc = "delay"
  /\ Len(queue) < MaxQueue
  /\ LET lp == loops[l]
         i == lp.i + 1
         pcm == reportPlaybackComplete(lp.allSuccess, lp.failedStep,
                                       Len(player.steps))
     IN  IF i < Len(player.steps) /\ player.isPlaying
         THEN /\ loops' = [ loops EXCEPT ![l].i = i, ![l].pc = "exec",
                                         ![l].step = player.steps[i + 1] ]
              /\ UNCHANGED << queue, reports, player >>
         ELSE /\ loops' = RemoveAt(loops, l)
              /\ queue' = Append(queue, pcm)
              /\ reports' = Append(reports, pcm)
              /\ player' = [ player EXCEPT !.isPlaying = FALSE ]
  /\ UNCHANGED << popup, playbackResults, state, tasks, tabLoading, session,
                  navs, stopped, interrupted, torn, resumeFailed >>

\* ---------------------------------------------------------------- recorder
NoRecorder == [ exists |-> FALSE, isRecording |-> FALSE ]

\* R3Recorder constructor, run when content/recorder.js is injected into a
\* page that has no window.R3Recorder yet.
NewRecorder == [ exists |-> TRUE, isRecording |-> FALSE ]

\* R3Recorder.start
RecorderStart(r) == [ r EXCEPT !.isRecording = TRUE ]

\* R3Recorder.stop
RecorderStop(r) == [ r EXCEPT !.isRecording = FALSE ]

\* ---------------------------------------------------------------- resolver
\* this.pollInterval: ms between polls
pollInterval == 100

\* A page as the resolver sees it for one locator.  A document holds, in
\* document order, the elements the locator matches (each hidden or visible)
\* and its iframes; an iframe is accessible (same origin) or not, and holds a
\* document.  An element is referred to by the iframes on the way to its
\* document and its position among the matches there.
ElsUpTo(e) == UNION { [ 1..n -> {"hidden", "visible"} ] : n \in 0..e }

RECURSIVE NumEls(_)
NumEls(doc) ==
  Len(doc.els) +
    ( IF doc.frames = << >> THEN 0
      ELSE NumEls(Head(doc.frames).doc) +
           NumEls([ els |-> << >>, frames |-> Tail(doc.frames) ]) )

RECURSIVE NumFrames(_)
NumFrames(doc) ==
  IF doc.frames = << >> THEN 0
  ELSE 1 + NumFrames(Head(doc.frames).doc) +
       NumFrames([ els |-> << >>, frames |-> Tail(doc.frames) ])

\* The documents with at most e matching elements and f iframes in all.
RECURSIVE DocsWithin(_, _)
RECURSIVE FramesWithin(_, _)
FramesWithin(e, f) ==
  { << >> } \cup
    ( IF f = 0 THEN {}
      ELSE UNION { { << [ accessible |-> a, doc |-> d ] >> \o rest :
                       a \in BOOLEAN,
                       rest \in FramesWithin(e - NumEls(d), f - 1 - NumFrames(d)) } :
                   d \in DocsWithin(e, f - 1) } )

DocsWithin(e, f) ==
  UNION { { [ els |-> s, frames |-> fr ] : fr \in FramesWithin(e - Len(s), f) } :
          s \in ElsUpTo(e) }

Doms == DocsWithin(MaxEls, MaxFrames)

\* The pages that differ from doc in one matching element: one that is shown
\* or hidden, one that is added at the end of a document (while the page
\* holds fewer than MaxEls), or the last one of a document that is removed.
RECURSIVE Changes(_, _)
Changes(doc, free) ==
  { [ doc EXCEPT !.els[i] = IF @ = "hidden" THEN "visible" ELSE "hidden" ] :
      i \in 1..Len(doc.els) }
    \cup { [ doc EXCEPT !.els = Append(@, v) ] :
             v \in IF free > 0 THEN { "hidden", "visible" } ELSE {} }
    \cup { [ doc EXCEPT !.els = SubSeq(@, 1, Len(@) - 1) ] :
             k \in IF doc.els = << >> THEN {} ELSE { 1 } }
    \cup UNION { { [ doc EXCEPT !.frames[j].doc = d ] :
                     d \in Changes(doc.frames[j].doc, free) } :
                 j \in 1..Len(doc.frames) }

\* Locators: one the query engine accepts, one it accepts only in unescaped
\* form, one it rejects in both forms, and the empty locator.
Selectors == { "plain", "escaped", "malformed", "" }

\* Timeout budgets of a resolver call, in ms: one poll interval, and MaxTicks
\* of them.
Timeouts == { pollInterval, MaxTicks * pollInterval }

NoElement == [ path |-> << >>, slot |-> 0 ]

\* Visibility state of the element el of the page doc.
RECURSIVE Status(_, _)
Status(doc, el) ==
  IF el.path = << >> THEN doc.els[el.slot]
  ELSE Status(doc.frames[Head(el.path)].doc,
              [ path |-> Tail(el.path), slot |-> el.slot ])

\* R3Player.isVisible
isVisible(doc, el) == el # NoElement /\ Status(doc, el) = "visible"

\* doc.querySelectorAll(selector) for the document doc reached through the
\* iframes path: the matches in document order, or a SyntaxError.
querySelectorAll(selector, doc, path) ==
  IF selector = "plain"
  THEN [ threw |-> FALSE,
         list |-> [ i \in 1..Len(doc.els) |-> [ path |-> path, slot |-> i ] ] ]
  ELSE [ threw |-> TRUE, list |-> << >> ]

\* selector.replace(/\\(.)/g, '$1')
unescaped(selector) == IF selector = "escaped" THEN "plain" ELSE selector

\* R3Player.querySelectorAllSafe
querySelectorAllSafe(selector, doc, path) ==
  LET first == querySelectorAll(selector, doc, path)
      second == querySelectorAll(unescaped(selector), doc, path)
  IN  IF ~first.threw THEN first
      ELSE IF ~second.threw THEN second
      ELSE [ threw |-> FALSE, list |-> << >> ]

\* The first element of list, all of them in document doc, that is visible.
FirstVisibleIn(doc, list) ==
  IF \E i \in 1..Len(list) : doc.els[list[i].slot] = "visible"
  THEN list[CHOOSE i \in 1..Len(list) :
              /\ doc.els[list[i].slot] = "visible"
              /\ \A k \in 1..(i - 1) : doc.els[list[k].slot] # "visible"]
  ELSE NoElement

\* iframe.contentDocument || iframe.contentWindow?.document: null or a
\* SecurityError for a cross-origin iframe.
contentDocument(frame) == [ threw |-> ~frame.accessible, doc |-> frame.doc ]

\* findInIframes without its try/catch and null test: the error of a
\* cross-origin iframe leaves the search.
RECURSIVE FindInIframesUncaughtFrom(_, _, _, _)
FindInIframesUncaughtFrom(selector, doc, path, j) ==
  IF j > Len(doc.frames) THEN [ threw |-> FALSE, el |-> NoElement ]
  ELSE LET access == contentDocument(doc.frames[j])
           here == path \o << j >>
           visible == FirstVisibleIn(access.doc,
                        querySelectorAllSafe(selector, access.doc, here).list)
           nested == FindInIframesUncaughtFrom(selector, access.doc, here, 1)
       IN  IF access.threw THEN [ threw |-> TRUE, el |-> NoElement ]
           ELSE IF visible # NoElement THEN [ threw |-> FALSE, el |-> visible ]
           ELSE IF nested.threw \/ nested.el # NoElement THEN nested
           ELSE FindInIframesUncaughtFrom(selector, doc, path, j + 1)

findInIframesUncaught(selector, doc, path) ==
  FindInIframesUncaughtFrom(selector, doc, path, 1)

\* R3Player.findInIframes, from the j-th iframe of doc on.
RECURSIVE FindInIframesFrom(_, _, _, _)
FindInIframesFrom(selector, doc, path, j) ==
  IF j > Len(doc.frames) THEN [ threw |-> FALSE, el |-> NoElement ]
  ELSE LET access == contentDocument(doc.frames[j])
           here == path \o << j >>
           visible == FirstVisibleIn(access.doc,
                        querySelectorAllSafe(selector, access.doc, here).list)
           nested == FindInIframesFrom(selector, access.doc, here, 1)
       IN  IF access.threw
           THEN FindInIframesFrom(selector, doc, path, j + 1)
           ELSE IF visible # NoElement THEN [ threw |-> FALSE, el |-> visible ]
           ELSE IF ~nested.threw /\ nested.el # NoElement THEN nested
           ELSE FindInIframesFrom(selector, doc, path, j + 1)

\* R3Player.findInIframes
findInIframes(selector, doc, path) == FindInIframesFrom(selector, doc, path, 1)

\* findElement as document.querySelector would do it: the first match,
\* visible or not.
findElementFirstMatch(selector, doc) ==
  IF selector = "" THEN [ threw |-> FALSE, el |-> NoElement ]
  ELSE LET main == querySelectorAllSafe(selector, doc, << >>)
           iframeMatch == findInIframes(selector, doc, << >>)
       IN  IF main.list # << >> THEN [ threw |-> FALSE, el |-> main.list[1] ]
           ELSE iframeMatch

\* R3Player.findElement
findElement(selector, doc) ==
  IF selector = "" THEN [ threw |-> FALSE, el |-> NoElement ]
  ELSE LET main == querySelectorAllSafe(selector, doc, << >>)
           firstMatch == IF main.list = << >> THEN NoElement ELSE main.list[1]
           visible == FirstVisibleIn(doc, main.list)
           iframeMatch == findInIframes(selector, doc, << >>)
       IN  IF main.threw THEN [ threw |-> TRUE, el |-> NoElement ]
           ELSE IF visible # NoElement THEN [ threw |-> FALSE, el |-> visible ]
           ELSE IF iframeMatch.threw \/ iframeMatch.el # NoElement THEN iframeMatch
           ELSE [ threw |-> FALSE, el |-> firstMatch ]

\* The elements of the page that the locator matches and a script of the
\* primary document can reach: those of the primary document and of the
\* accessible iframes, nested ones included.
RECURSIVE Reachable(_, _)
Reachable(doc, path) ==
  { [ path |-> path, slot |-> i ] : i \in 1..Len(doc.els) } \cup
    UNION { IF doc.frames[j].accessible
            THEN Reachable(doc.frames[j].doc, path \o << j >>) ELSE {} :
            j \in 1..Len(doc.frames) }

Matches(selector, doc) ==
  IF unescaped(selector) = "plain" THEN Reachable(doc, << >>) ELSE {}

VisibleMatches(selector, doc) ==
  { el \in Matches(selector, doc) : Status(doc, el) = "visible" }

\* No resolver run, action or SelectorUtils call is under way.
NoRun == [ pc |-> "idle" ]

\* while (Date.now() - startTime < timeout)
withinBudgetEarly(elapsed, timeout) == elapsed + pollInterval < timeout

withinBudget(elapsed, timeout) == elapsed < timeout

\* An action of a playing player calls waitForElement(selector, timeout).
WaitForElementCalled(selector, dom, timeout) ==
  /\ res.pc = "idle"
  /\ res' = [ pc |-> "polling", selector |-> selector, dom |-> dom,
              timeout |-> timeout, elapsed |-> 0, foundButNotVisible |-> FALSE,
              element |-> NoElement, isPlaying |-> TRUE, observed |-> FALSE,
              ticks |-> 0 ]
  /\ UNCHANGED << playback, recorder, tab, delivered, act, gen, csv, store >>

\* waitForElement: the loop test and one pass of the loop body up to its
\* await; observed remembers whether any tick so far saw a reachable match.
WaitForElementTick ==
  /\ res.pc = "polling"
  /\ LET found == findElement(res.selector, res.dom)
     IN  res' =
           IF ~withinBudget(res.elapsed, res.timeout)
           THEN [ res EXCEPT !.pc = IF res.foundButNotVisible
                                    THEN "ElementNotVisible" ELSE "ElementNotFound" ]
           ELSE IF ~res.isPlaying
           THEN [ res EXCEPT !.pc = "AbortError" ]
           ELSE IF found.threw
           THEN [ res EXCEPT !.pc = "threw", !.ticks = @ + 1 ]
           ELSE IF isVisible(res.dom, found.el)
           THEN [ res EXCEPT !.pc = "returned", !.element = found.el,
                             !.ticks = @ + 1,
                             !.observed = TRUE ]
           ELSE [ res EXCEPT !.pc = "sleeping", !.ticks = @ + 1,
                             !.foundButNotVisible = @ \/ found.el # NoElement,
                             !.observed = @ \/ Matches(res.selector, res.dom) # {} ]
  /\ UNCHANGED << playback, recorder, tab, delivered, act, gen, csv, store >>

\* waitForElement: await this.delay(this.pollInterval) is over.
PollDelayElapsed ==
  /\ res.pc = "sleeping"
  /\ res' = [ res EXCEPT !.pc = "polling", !.elapsed = @ + pollInterval ]
  /\ UNCHANGED << playback, recorder, tab, delivered, act, gen, csv, store >>

\* Between two ticks the page shows, hides, adds or removes a matching
\* element; the iframes stay.
DomChanged(dom) ==
  /\ res.pc = "sleeping"
  /\ dom \in Changes(res.dom, MaxEls - NumEls(res.dom))
  /\ res' = [ res EXCEPT !.dom = dom ]
  /\ UNCHANGED << playback, recorder, tab, delivered, act, gen, csv, store >>

\* Between two ticks R3Player.stop runs.
StoppedWhilePolling ==
  /\ res.pc = "sleeping"
  /\ res.isPlaying
  /\ res' = [ res EXCEPT !.isPlaying = FALSE ]
  /\ UNCHANGED << playback, recorder, tab, delivered, act, gen, csv, store >>

\* ----------------------------------------------------------------- actions
\* Characters of step values, field values and option texts: a letter in
\* both cases and another letter.
Chars == { "a", "A", "b" }

\* Strings are sequences of characters.
Words == UNION { [ 1..n -> Chars ] : n \in 0..MaxLen }

\* Element.tagName: upper case for HTML elements, as written for others (an
\* SVG anchor is "a").
Tags == { "BUTTON", "A", "a", "INPUT", "TEXTAREA", "SELECT" }

\* element.tagName.toLowerCase()
tagNameLower(element) ==
  CASE element.tagName = "BUTTON" -> "button"
    [] element.tagName = "A" -> "a"
    [] element.tagName = "INPUT" -> "input"
    [] element.tagName = "TEXTAREA" -> "textarea"
    [] element.tagName = "SELECT" -> "select"
    [] element.tagName = "DIV" -> "div"
    [] element.tagName = "BODY" -> "body"
    [] OTHER -> element.tagName

\* The resolved elements: tag, value and checked state.
Elements == [ tagName : Tags, value : Words, checked : BOOLEAN ]

\* An entry of the log of what an action does to its element: a method it
\* calls (focus(), click()) or an event it dispatches (with the key of a
\* keyboard event), and the state of the element at that moment, as a
\* handler sees it.
Event(type, key, element) ==
  [ type |-> type, key |-> key, value |-> element.value,
    checked |-> element.checked ]

\* R3Player.dispatchMouseEvent
dispatchMouseEvent(element, type) == Event(type, "", element)

\* R3Player.dispatchFocusEvent
dispatchFocusEvent(element, type) == Event(type, "", element)

\* actionClick with element.click() for every element.
actionClickAlwaysNative(element) ==
  [ element |-> element, threw |-> FALSE,
    log |-> << Event("focus()", "", element),
               dispatchMouseEvent(element, "mousedown"),
               dispatchMouseEvent(element, "mouseup"),
               dispatchMouseEvent(element, "click"),
               Event("click()", "", element) >> ]

\* R3Player.actionClick, after waitForElement has returned element.
actionClick(element) ==
  [ element |-> element, threw |-> FALSE,
    log |-> << Event("focus()", "", element),
               dispatchMouseEvent(element, "mousedown"),
               dispatchMouseEvent(element, "mouseup"),
               dispatchMouseEvent(element, "click") >>
            \o ( IF tagNameLower(element) # "a"
                 THEN << Event("click()", "", element) >> ELSE << >> ) ]

\* An action of the player has its element: waitForElement returned it.
ElementResolved(action, element, value) ==
  /\ act.pc = "idle"
  /\ act' = [ pc |-> "resolved", action |-> action, element |-> element,
              before |-> element, value |-> value, log |-> << >>,
              isPlaying |-> TRUE, i |-> 0 ]
  /\ UNCHANGED << playback, recorder, tab, delivered, res, gen, csv, store >>

\* The synchronous rest of an action: ran is what it did to the element.
Acted(ran) ==
  act' = [ act EXCEPT !.pc = IF ran.threw THEN "threw" ELSE "done",
                      !.element = ran.element,
                      !.log = @ \o ran.log ]

\* R3Player.actionClick runs to its end.
ActionClick ==
  /\ act.pc = "resolved"
  /\ act.action = "CLICK"
  /\ Acted(actionClick(act.element))
  /\ UNCHANGED << playback, recorder, tab, delivered, res, gen, csv, store >>

\* The value setter of HTMLInputElement.prototype (proto "input") or of
\* HTMLTextAreaElement.prototype (proto "textarea") called on element: a
\* TypeError on an element of another kind.
nativeSetter(proto, element, value) ==
  IF tagNameLower(element) = proto
  THEN [ threw |-> FALSE, element |-> [ element EXCEPT !.value = value ] ]
  ELSE [ threw |-> TRUE, element |-> element ]

\* value.substring(0, i)
substring(value, i) == SubSeq(value, 1, i)

\* R3Player.actionTypeChar up to the loop: focus, then the field is cleared.
TypeCharBegin ==
  /\ act.pc = "resolved"
  /\ act.action = "TYPE_CHAR"
  /\ LET element == act.element
         proto == IF tagNameLower(element) = "textarea" THEN "textarea" ELSE "input"
         cleared == nativeSetter(proto, element, << >>)
         focused == << Event("focus()", "", element),
                       dispatchFocusEvent(element, "focus") >>
     IN  act' =
           IF cleared.threw
           THEN [ act EXCEPT !.pc = "threw", !.log = focused ]
           ELSE IF act.value = << >>
           THEN [ act EXCEPT !.pc = "done", !.element = cleared.element,
                    !.log = focused \o << Event("input", "", cleared.element),
                                          Event("change", "", cleared.element),
                                          Event("blur", "", cleared.element) >> ]
           ELSE [ act EXCEPT !.pc = "char", !.element = cleared.element,
                    !.log = focused \o << Event("input", "", cleared.element) >> ]
  /\ UNCHANGED << playback, recorder, tab, delivered, res, gen, csv, store >>

\* The body of the loop without its isPlaying test.
TypeCharKeyNoAbort ==
  /\ act.pc = "char"
  /\ LET char == act.value[act.i + 1]
         proto == IF tagNameLower(act.element) = "textarea" THEN "textarea" ELSE "input"
         set == nativeSetter(proto, act.element, substring(act.value, act.i + 1))
     IN  act' = [ act EXCEPT !.pc = "pause", !.element = set.element,
                    !.log = @ \o << Event("keydown", char, act.element),
                                    Event("input", "", set.element),
                                    Event("keyup", char, set.element) >> ]
  /\ UNCHANGED << playback, recorder, tab, delivered, res, gen, csv, store >>

\* R3Player.actionTypeChar: one pass of the loop up to its delay.
TypeCharKey ==
  /\ act.pc = "char"
  /\ LET char == act.value[act.i + 1]
         proto == IF tagNameLower(act.element) = "textarea" THEN "textarea" ELSE "input"
         set == nativeSetter(proto, act.element, substring(act.value, act.i + 1))
     IN  act' =
           IF ~act.isPlaying
           THEN [ act EXCEPT !.pc = "AbortError" ]
           ELSE [ act EXCEPT !.pc = "pause", !.element = set.element,
                    !.log = @ \o << Event("keydown", char, act.element),
                                    Event("input", "", set.element),
                                    Event("keyup", char, set.element) >> ]
  /\ UNCHANGED << playback, recorder, tab, delivered, res, gen, csv, store >>

\* R3Player.actionTypeChar: await this.delay(30) is over; the loop goes on or
\* ends with change and blur.
TypeCharPaused ==
  /\ act.pc = "pause"
  /\ act' =
       IF act.i + 1 < Len(act.value)
       THEN [ act EXCEPT !.pc = "char", !.i = @ + 1 ]
       ELSE [ act EXCEPT !.pc = "done", !.i = @ + 1,
                !.log = @ \o << Event("change", "", act.element),
                                Event("blur", "", act.element) >> ]
  /\ UNCHANGED << playback, recorder, tab, delivered, res, gen, csv, store >>

\* R3Player.stop runs while the action sleeps between two characters.
StoppedBetweenCharacters ==
  /\ act.pc = "pause"
  /\ act.isPlaying
  /\ act' = [ act EXCEPT !.isPlaying = FALSE ]
  /\ UNCHANGED << playback, recorder, tab, delivered, res, gen, csv, store >>

\* dispatchInputEvents with change dispatched before input.
dispatchInputEventsChangeFirst(element, value) ==
  LET set == nativeSetter(IF tagNameLower(element) = "textarea"
                          THEN "textarea" ELSE "input", element, value)
  IN  [ threw |-> set.threw, element |-> set.element,
        log |-> IF set.threw THEN << >>
                ELSE << Event("change", "", set.element),
                        Event("input", "", set.element),
                        Event("blur", "", set.element) >> ]

\* R3Player.dispatchInputEvents
dispatchInputEvents(element, value) ==
  LET set == nativeSetter(IF tagNameLower(element) = "textarea"
                          THEN "textarea" ELSE "input", element, value)
  IN  [ threw |-> set.threw, element |-> set.element,
        log |-> IF set.threw THEN << >>
                ELSE << Event("input", "", set.element),
                        Event("change", "", set.element),
                        Event("blur", "", set.element) >> ]

\* R3Player.actionType, after waitForElement has returned element.
actionType(element, value) ==
  LET assigned == [ element EXCEPT !.value = value ]
      events == dispatchInputEvents(assigned, value)
  IN  [ threw |-> events.threw, element |-> events.element,
        log |-> << Event("focus()", "", element),
                   dispatchFocusEvent(element, "focus") >> \o events.log ]

\* R3Player.actionClear, after waitForElement has returned element.
actionClear(element) ==
  LET assigned == [ element EXCEPT !.value = << >> ]
      events == dispatchInputEvents(assigned, << >>)
  IN  [ threw |-> events.threw, element |-> events.element,
        log |-> << Event("focus()", "", element) >> \o events.log ]

\* R3Player.actionType or actionClear runs to its end.
ActionTypeOrClear ==
  /\ act.pc = "resolved"
  /\ \/ act.action = "TYPE" /\ Acted(actionType(act.element, act.value))
     \/ act.action = "CLEAR" /\ Acted(actionClear(act.element))
  /\ UNCHANGED << playback, recorder, tab, delivered, res, gen, csv, store >>

\* actionCheck without the comparison: it writes and dispatches every time.
actionCheckUnconditional(element, checked) ==
  LET written == [ element EXCEPT !.checked = checked ]
  IN  [ threw |-> FALSE, element |-> written,
        log |-> << Event("checked=", "", written),
                   Event("change", "", written),
                   Event("input", "", written) >> ]

\* R3Player.actionCheck, after waitForElement has returned element; the
\* write of element.checked is logged as "checked=".
actionCheck(element, checked) ==
  LET written == [ element EXCEPT !.checked = checked ]
  IN  IF element.checked # checked
      THEN [ threw |-> FALSE, element |-> written,
             log |-> << Event("checked=", "", written),
                        Event("change", "", written),
                        Event("input", "", written) >> ]
      ELSE [ threw |-> FALSE, element |-> element, log |-> << >> ]

\* R3Player.actionCheck runs to its end, for a CHECK or UNCHECK step or for a
\* second step like it on the same element; i counts the runs and the log is
\* that of the last run.
ActionCheck ==
  /\ act.pc = "resolved" \/ ( act.pc = "done" /\ act.i = 1 )
  /\ act.action \in { "CHECK", "UNCHECK" }
  /\ LET ran == actionCheck(act.element, act.action = "CHECK")
     IN  act' = [ act EXCEPT !.pc = "done", !.element = ran.element,
                             !.log = ran.log, !.i = @ + 1 ]
  /\ UNCHANGED << playback, recorder, tab, delivered, res, gen, csv, store >>

\* String.prototype.toLowerCase
toLowerCase(word) ==
  [ k \in 1..Len(word) |-> IF word[k] = "A" THEN "a" ELSE word[k] ]

\* String.prototype.includes
includes(word, part) ==
  \E from \in 1..(Len(word) + 1) :
    /\ from + Len(part) - 1 <= Len(word)
    /\ SubSeq(word, from, from + Len(part) - 1) = part

\* The option lists of a select element: value and text of each option.
OptionLists ==
  UNION { [ 1..n -> [ value : Words, text : Words ] ] : n \in 0..MaxOptions }

\* The targets of a SELECT step: a select element showing its first option
\* (none if it has no option), or an element of another kind.
SelectTargets ==
  { [ tagName |-> "SELECT", options |-> options, checked |-> FALSE,
      selectedIndex |-> IF options = << >> THEN 0 ELSE 1,
      value |-> IF options = << >> THEN << >> ELSE options[1].value ] :
    options \in OptionLists }
  \cup { [ tagName |-> tag, options |-> << >>, checked |-> FALSE,
           selectedIndex |-> 0, value |-> << >> ] :
         tag \in Tags \ { "SELECT" } }

\* select.value = value: the first option with that value becomes the
\* selected one, and none if there is no such option.
setSelectValue(element, value) ==
  LET having == { k \in 1..Len(element.options) : element.options[k].value = value }
      first == CHOOSE k \in having : \A j \in having : k <= j
  IN  IF having = {}
      THEN [ element EXCEPT !.selectedIndex = 0, !.value = << >> ]
      ELSE [ element EXCEPT !.selectedIndex = first, !.value = value ]

\* R3Player.actionSelect, after waitForElement has returned element.
actionSelect(element, value) ==
  LET assigned == setSelectValue(element, value)
      matching == { k \in 1..Len(element.options) :
                      \/ includes(toLowerCase(element.options[k].text),
                                  toLowerCase(value))
                      \/ toLowerCase(element.options[k].value) = toLowerCase(value) }
      match == CHOOSE k \in matching : \A j \in matching : k <= j
      selected == IF assigned.value # value /\ matching # {}
                  THEN setSelectValue(assigned, element.options[match].value)
                  ELSE assigned
  IN  IF tagNameLower(element) # "select"
      THEN [ threw |-> TRUE, element |-> element, log |-> << >> ]
      ELSE [ threw |-> FALSE, element |-> selected,
             log |-> << Event("focus()", "", element),
                        Event("change", "", selected) >> ]

\* R3Player.actionSelect runs to its end.
ActionSelect ==
  /\ act.pc = "resolved"
  /\ act.action = "SELECT"
  /\ Acted(actionSelect(act.element, act.value))
  /\ UNCHANGED << playback, recorder, tab, delivered, res, gen, csv, store >>

\* ----------------------------------------------------------- SelectorUtils
\* Character classes of the regular expressions: \d, [a-zA-Z] (also [a-z]
\* with the i flag), [a-f0-9] with the i flag.
Digit == { "0", "1", "2", "3", "4", "5", "6", "7", "8", "9" }

Letter ==
  { "a", "b", "c", "d", "e", "f", "g", "h", "i", "j", "k", "l", "m", "n", "o",
    "p", "q", "r", "s", "t", "u", "v", "w", "x", "y", "z",
    "A", "B", "C", "D", "E", "F", "G", "H", "I", "J", "K", "L", "M", "N", "O",
    "P", "Q", "R", "S", "T", "U", "V", "W", "X", "Y", "Z" }

HexDigit ==
  Digit \cup { "a", "b", "c", "d", "e", "f", "A", "B", "C", "D", "E", "F" }

\* RegExp.test for the shapes the patterns use: n characters of class at
\* position i (class{n,} after a prefix), n of them in a row anywhere
\* (class{n,} unanchored), and a literal prefix (^literal).
RunAt(word, i, class, n) ==
  /\ i + n - 1 <= Len(word)
  /\ \A k \in i..(i + n - 1) : word[k] \in class

HasRun(word, class, n) == \E i \in 1..Len(word) : RunAt(word, i, class, n)

StartsWith(word, prefix) ==
  /\ Len(prefix) <= Len(word)
  /\ SubSeq(word, 1, Len(prefix)) = prefix

\* isValidId with /^r:/ in place of /^r:\d/.
isValidIdAnyPrefix(id) ==
  /\ id # << >>
  /\ ~ \/ HasRun(id, Digit, 3)
       \/ StartsWith(id, << "r", ":" >>)
       \/ HasRun(id, HexDigit, 8)
       \/ StartsWith(id, << ":", "r" >>)
       \/ RunAt(id, 1, Digit, Len(id))
       \/ StartsWith(id, << "e", "m", "b", "e", "r" >>) /\ RunAt(id, 6, Digit, 1)
       \/ StartsWith(id, << "n", "g", "-" >>)
       \/ StartsWith(id, << "r", "e", "a", "c", "t", "-" >>)

\* SelectorUtils.isValidId: the empty id, then the patterns /[-_]?\d{3,}/,
\* /^r:\d/, /[a-f0-9]{8,}/i, /^:r/, /^\d+$/, /^ember\d+/, /^ng-/, /^react-/.
isValidId(id) ==
  /\ id # << >>
  /\ ~ \/ HasRun(id, Digit, 3)
       \/ StartsWith(id, << "r", ":" >>) /\ RunAt(id, 3, Digit, 1)
       \/ HasRun(id, HexDigit, 8)
       \/ StartsWith(id, << ":", "r" >>)
       \/ RunAt(id, 1, Digit, Len(id))
       \/ StartsWith(id, << "e", "m", "b", "e", "r" >>) /\ RunAt(id, 6, Digit, 1)
       \/ StartsWith(id, << "n", "g", "-" >>)
       \/ StartsWith(id, << "r", "e", "a", "c", "t", "-" >>)

\* SelectorUtils.isDynamicClass
isDynamicClass(className) ==
  \/ \E n \in 1..3 :                              \* /^[a-z]{1,3}-[a-f0-9]{6,}/i
       /\ RunAt(className, 1, Letter, n)
       /\ RunAt(className, n + 1, { "-" }, 1)
       /\ RunAt(className, n + 2, HexDigit, 6)
  \/ /\ RunAt(className, 1, { "c", "C" }, 1)      \* /^css-[a-z0-9]+/i
     /\ RunAt(className, 2, { "s", "S" }, 2)
     /\ RunAt(className, 4, { "-" }, 1)
     /\ RunAt(className, 5, Letter \cup Digit, 1)
  \/ /\ StartsWith(className, << "s", "c", "-" >>)                \* /^sc-[a-zA-Z]+/
     /\ RunAt(className, 4, Letter, 1)
  \/ /\ StartsWith(className, << "_" >>)          \* /^_[a-f0-9]{5,}/i
     /\ RunAt(className, 2, HexDigit, 5)
  \/ /\ StartsWith(className, << "j", "s", "x", "-" >>)               \* /^jsx-[0-9]+/
     /\ RunAt(className, 5, Digit, 1)
  \/ HasRun(className, Digit, 5)                  \* /\d{5,}/

\* Class names of the captured element and its ancestors.
ClassNames ==
  { << "c", "s", "s", "-", "1", "a", "2", "b", "3", "c" >>,
    << "b", "t", "n", "-", "p", "r", "i", "m", "a", "r", "y" >>,
    << "c", "o", "n", "t", "a", "i", "n", "e", "r" >> }

\* The arguments of generateSelector: null, an object without tagName, and
\* elements. An attribute is absent (getAttribute gives null) or a text; the
\* id is empty, one that passes isValidId or one that does not; siblings are
\* the tag names of parentElement.children (none for an element without
\* parent) and index the element's place among them; the ancestors, from
\* the parent upwards, come with the same: none for a detached element,
\* else up to body (whose parent is html); forLabel: a label with text whose
\* for attribute is the element's id; inLabel: an enclosing label with text.
GenInputs ==
  LET AttrValues == { "", "x" }
      ElementIds == { << >>, << "h", "e", "a", "d", "e", "r" >>,
                      << "1", "2", "3", "4", "5" >> }
      ClassLists == UNION { [ 1..n -> ClassNames ] : n \in 0..MaxClasses }
      Body == [ tagName |-> "BODY", classList |-> << >>,
                siblings |-> << "HEAD", "BODY" >>, index |-> 2 ]
      Div == [ tagName |-> "DIV",
               classList |-> << << "c", "s", "s", "-", "1", "a", "2", "b", "3", "c" >>,
                                << "c", "o", "n", "t", "a", "i", "n", "e", "r" >> >>,
               siblings |-> << "P", "DIV", "DIV" >>, index |-> 2 ]
      Chains == { << Body >>, << Div, Body >>, << Div, Div, Div, Div, Body >> }
      Places(tag) ==
        { [ siblings |-> << >>, index |-> 0, chain |-> << >> ] } \cup
        { [ siblings |-> at[1], index |-> at[2], chain |-> chain ] :
            at \in { << << tag >>, 1 >>, << << tag, tag >>, 1 >>,
                     << << "SPAN", tag, tag >>, 2 >>,
                     << << "SPAN", tag, tag >>, 3 >> },
            chain \in Chains }
      Placed(tag) ==
        UNION { [ kind : { "element" }, tagName : { tag },
                  testid : AttrValues, testid2 : AttrValues, cy : AttrValues,
                  id : ElementIds, name : AttrValues, ariaLabel : AttrValues,
                  placeholder : AttrValues, type : AttrValues,
                  classList : ClassLists, siblings : { place.siblings },
                  index : { place.index }, chain : { place.chain },
                  forLabel : BOOLEAN, inLabel : BOOLEAN ] :
                place \in Places(tag) }
  IN  { [ kind |-> "null" ], [ kind |-> "object" ] }
        \cup Placed("INPUT") \cup Placed("DIV")

\* A selector string, by the template literal that built it and the texts
\* put into its holes; the empty string has the empty template.
Selector(template, tag, value, id, path) ==
  [ template |-> template, tag |-> tag, value |-> value, id |-> id,
    path |-> path ]

EmptyString == Selector("", "", "", << >>, << >>)

\* SelectorUtils.findByLabel
findByLabel(element) ==
  IF element.id # << >> /\ element.forLabel
  THEN Selector("${tagName}#${CSS.escape(id)}", tagNameLower(element), "",
                element.id, << >>)
  ELSE IF element.inLabel /\ element.type # ""
  THEN Selector("label:has(${tagName}[type=\"${type}\"])",
                tagNameLower(element), element.type, << >>, << >>)
  ELSE EmptyString

\* pathPart without the filter on the class names.
pathPartUnfiltered(node) ==
  LET sameTagSiblings ==
        { k \in 1..Len(node.siblings) : node.siblings[k] = node.tagName }
  IN  [ tag |-> tagNameLower(node),
        classes |-> SubSeq(node.classList, 1,
                           IF Len(node.classList) < 2 THEN Len(node.classList)
                           ELSE 2),
        nth |-> IF node.siblings # << >> /\ Cardinality(sameTagSiblings) > 1
                THEN node.index ELSE 0 ]

\* pathPart with the element's place among its same-tag siblings as index.
pathPartAmongSameTag(node) ==
  LET kept == SelectSeq(node.classList, LAMBDA cls : ~isDynamicClass(cls))
      sameTagSiblings ==
        { k \in 1..Len(node.siblings) : node.siblings[k] = node.tagName }
  IN  [ tag |-> tagNameLower(node),
        classes |-> SubSeq(kept, 1, IF Len(kept) < 2 THEN Len(kept) ELSE 2),
        nth |-> IF node.siblings # << >> /\ Cardinality(sameTagSiblings) > 1
                THEN Cardinality({ k \in sameTagSiblings : k <= node.index })
                ELSE 0 ]

\* SelectorUtils.buildCssPath: the part of the path for one element: its
\* tag, its first two classes that are not dynamic and, when it has a parent
\* and a sibling of its tag, its place among the parent's children.
pathPart(node) ==
  LET kept == SelectSeq(node.classList, LAMBDA cls : ~isDynamicClass(cls))
      sameTagSiblings ==
        { k \in 1..Len(node.siblings) : node.siblings[k] = node.tagName }
  IN  [ tag |-> tagNameLower(node),
        classes |-> SubSeq(kept, 1, IF Len(kept) < 2 THEN Len(kept) ELSE 2),
        nth |-> IF node.siblings # << >> /\ Cardinality(sameTagSiblings) > 1
                THEN node.index ELSE 0 ]

\* SelectorUtils.buildCssPath: the loop, from the k-th element of nodes (the
\* element and its ancestors) on, with the path built so far.
RECURSIVE buildCssPathFrom(_, _, _)
buildCssPathFrom(nodes, k, path) ==
  IF k > Len(nodes) THEN path
  ELSE LET longer == << pathPart(nodes[k]) >> \o path
       IN  IF tagNameLower(nodes[k]) = "body" \/ Len(longer) >= 4
           THEN longer
           ELSE buildCssPathFrom(nodes, k + 1, longer)

\* SelectorUtils.buildCssPath
buildCssPath(element) ==
  Selector("${path.join(' > ')}", "", "", << >>,
           buildCssPathFrom(<< [ tagName |-> element.tagName,
                                 classList |-> element.classList,
                                 siblings |-> element.siblings,
                                 index |-> element.index ] >> \o element.chain,
                            1, << >>))

\* generateSelector with the id looked at before the test ids.
generateSelectorIdFirst(element) ==
  IF element.kind # "element" THEN EmptyString
  ELSE IF element.id # << >> /\ isValidId(element.id)
  THEN Selector("#${CSS.escape(id)}", "", "", element.id, << >>)
  ELSE IF element.testid # ""
  THEN Selector("[data-testid=\"${testId}\"]", "", element.testid, << >>, << >>)
  ELSE buildCssPath(element)

\* generateSelector without its last line: nothing when no rule applies.
generateSelectorNoPath(element) ==
  IF element.kind # "element" THEN EmptyString
  ELSE IF element.testid # ""
  THEN Selector("[data-testid=\"${testId}\"]", "", element.testid, << >>, << >>)
  ELSE IF element.id # << >> /\ isValidId(element.id)
  THEN Selector("#${CSS.escape(id)}", "", "", element.id, << >>)
  ELSE EmptyString

\* SelectorUtils.generateSelector
generateSelector(element) ==
  IF element.kind # "element" THEN EmptyString
  ELSE LET testId == IF element.testid # "" THEN element.testid
                     ELSE IF element.testid2 # "" THEN element.testid2
                     ELSE element.cy
           labelSelector == findByLabel(element)
       IN  IF testId # ""
           THEN Selector("[data-testid=\"${testId}\"]", "", testId, << >>, << >>)
           ELSE IF element.id # << >> /\ isValidId(element.id)
           THEN Selector("#${CSS.escape(id)}", "", "", element.id, << >>)
           ELSE IF element.name # ""
           THEN Selector("${tagName}[name=\"${name}\"]", tagNameLower(element),
                         element.name, << >>, << >>)
           ELSE IF element.ariaLabel # ""
           THEN Selector("[aria-label=\"${ariaLabel}\"]", "", element.ariaLabel,
                         << >>, << >>)
           ELSE IF element.placeholder # ""
           THEN Selector("${tagName}[placeholder=\"${placeholder}\"]",
                         tagNameLower(element), element.placeholder, << >>, << >>)
           ELSE IF labelSelector # EmptyString
           THEN labelSelector
           ELSE buildCssPath(element)

\* Element.matches for the selectors generateSelector builds: the element,
\* in its document, is one of those document.querySelectorAll(selector)
\* gives.
matches(element, selector) ==
  LET t == selector.template
      nodes == << element >> \o element.chain
      path == selector.path
      n == Len(path)
  IN  CASE t = "[data-testid=\"${testId}\"]" -> element.testid = selector.value
        [] t = "#${CSS.escape(id)}" -> element.id = selector.id
        [] t = "${tagName}[name=\"${name}\"]" ->
             tagNameLower(element) = selector.tag /\ element.name = selector.value
        [] t = "[aria-label=\"${ariaLabel}\"]" ->
             element.ariaLabel = selector.value
        [] t = "${tagName}[placeholder=\"${placeholder}\"]" ->
             /\ tagNameLower(element) = selector.tag
             /\ element.placeholder = selector.value
        [] t = "${tagName}#${CSS.escape(id)}" ->
             tagNameLower(element) = selector.tag /\ element.id = selector.id
        [] t = "label:has(${tagName}[type=\"${type}\"])" ->
             tagNameLower(element) = "label"
        [] t = "${path.join(' > ')}" ->
             /\ n >= 1
             /\ n <= Len(nodes)
             /\ \A k \in 1..n :
                  LET node == nodes[n - k + 1]
                  IN  /\ path[k].tag = tagNameLower(node)
                      /\ \A c \in 1..Len(path[k].classes) :
                           \E d \in 1..Len(node.classList) :
                             node.classList[d] = path[k].classes[c]
                      /\ path[k].nth \in { 0, node.index }
        [] OTHER -> FALSE

\* Texts put together from at most n of the given parts.
RECURSIVE Joined(_, _)
Joined(parts, n) ==
  IF n = 0 THEN { << >> }
  ELSE LET shorter == Joined(parts, n - 1)
       IN  shorter \cup { w \o part : w \in shorter, part \in parts }

\* The arguments of isValidId: ids put together from the prefixes the
\* patterns name, digits, hex digits and other text, and the ids of the
\* tests.
Ids ==
  Joined({ << "r", ":" >>, << ":", "r" >>, << "n", "g", "-" >>,
           << "r", "e", "a", "c", "t", "-" >>, << "e", "m", "b", "e", "r" >>,
           << "m", "y", "-" >>, << "i", "d" >>, << "1" >>, << "1", "2" >>,
           << "a", "b", "c", "d" >>, << "e", "f", "0", "1" >>, << "x" >> },
         MaxParts)
    \cup { << "1", "2", "3", "4", "5" >>, << "r", ":", "1", "2", "3" >>,
           << "a", "1", "b", "2", "c", "3", "d", "4", "e", "5" >>,
           << "m", "y", "-", "i", "d" >>, << "h", "e", "a", "d", "e", "r" >> }

\* The arguments of isDynamicClass: the class names of the elements, those
\* of the tests and one for each pattern.
ClassWords ==
  ClassNames \cup
    { << "s", "c", "-", "a", "b", "c", "d", "e", "f" >>,
      << "a", "b", "-", "a", "b", "c", "d", "e", "f" >>,
      << "_", "a", "b", "c", "d", "e" >>, << "j", "s", "x", "-", "1" >>,
      << "a", "1", "2", "3", "4", "5" >>, << "c", "s", "s", "-" >>,
      << "m", "a", "i", "n" >> }

\* SelectorUtils.isValidId or SelectorUtils.isDynamicClass is called with
\* word.
FilterCalled(fn, word) ==
  /\ gen.pc = "idle"
  /\ gen' = [ pc |-> "done", fn |-> fn, word |-> word,
              result |-> IF fn = "isValidId" THEN isValidId(word)
                         ELSE isDynamicClass(word) ]
  /\ UNCHANGED << playback, recorder, tab, delivered, res, act, csv, store >>

\* SelectorUtils.generateSelector is called with element.
GenerateSelectorCalled(element) ==
  /\ gen.pc = "idle"
  /\ gen' = [ pc |-> "done", fn |-> "generateSelector", element |-> element,
              selector |-> generateSelector(element) ]
  /\ UNCHANGED << playback, recorder, tab, delivered, res, act, csv, store >>

\* ---------------------------------------------------------------- CSV
\* The step lists of the popup that are exported: a step with an upper-case
\* action, a target of at most one character, a value of at most MaxCell
\* characters and a description, alone or followed by a plain step. The
\* characters are a letter, the comma, the double quote, the line feed, a
\* character stringify guards against and the single quote.
CsvStepLists ==
  LET CsvChars == { "a", ",", "\"", "\n", "=", "'" }
      Cells == UNION { [ 1..n -> CsvChars ] : n \in 0..MaxCell }
      varied == [ action : { << "A" >>, << "-", "A" >> },
                  target : { << >> } \cup { << c >> : c \in CsvChars },
                  value : Cells, description : { << >>, << "@", "a" >> } ]
      plain == [ action |-> << "A" >>, target |-> << "a" >>, value |-> << >>,
                 description |-> << >> ]
  IN  { << step >> : step \in varied } \cup { << step, plain >> : step \in varied }

\* String.prototype.toUpperCase
toUpperCase(word) ==
  [ k \in 1..Len(word) |-> IF word[k] = "a" THEN "A" ELSE word[k] ]

\* String.prototype.trim
RECURSIVE trim(_)
trim(str) ==
  LET WhiteSpace == { " ", "\t", "\n", "\r" }
  IN  IF str # << >> /\ Head(str) \in WhiteSpace THEN trim(Tail(str))
      ELSE IF str # << >> /\ str[Len(str)] \in WhiteSpace
      THEN trim(SubSeq(str, 1, Len(str) - 1))
      ELSE str

\* Array.prototype.join of texts
RECURSIVE join(_, _)
join(texts, separator) ==
  IF texts = << >> THEN << >>
  ELSE IF Len(texts) = 1 THEN texts[1]
  ELSE texts[1] \o separator \o join(Tail(texts), separator)

\* CSV.stringify, for one cell, without the quoting of cells that hold a
\* line break.
stringifyCellBreaksBare(cell) ==
  LET str == IF cell # << >> /\ Head(cell) \in { "=", "+", "-", "@" }
             THEN << "'" >> \o cell ELSE cell
      doubled == join([ k \in 1..Len(str) |->
                          IF str[k] = "\"" THEN << "\"", "\"" >>
                          ELSE << str[k] >> ], << >>)
  IN  IF \E k \in 1..Len(str) : str[k] \in { ",", "\"" }
      THEN << "\"" >> \o doubled \o << "\"" >>
      ELSE str

\* CSV.stringify, for one cell: the guard against formulas, then the quotes
\* around a cell with a comma, a double quote or a line break, in which
\* str.replace(/"/g, '""') doubles every double quote.
stringifyCell(cell) ==
  LET str == IF cell # << >> /\ Head(cell) \in { "=", "+", "-", "@" }
             THEN << "'" >> \o cell ELSE cell
      doubled == join([ k \in 1..Len(str) |->
                          IF str[k] = "\"" THEN << "\"", "\"" >>
                          ELSE << str[k] >> ], << >>)
  IN  IF \E k \in 1..Len(str) : str[k] \in { ",", "\"", "\n", "\r" }
      THEN << "\"" >> \o doubled \o << "\"" >>
      ELSE str

\* CSV.stringify
stringify(data) ==
  join([ r \in 1..Len(data) |->
           join([ c \in 1..Len(data[r]) |-> stringifyCell(data[r][c]) ],
                << "," >>) ],
       << "\r", "\n" >>)

\* CSV.parse: one turn of the loop, on the character at st.i and the one
\* after it, with i, rows, currentRow, currentCell and insideQuotes in st.
parseChar(st, char, nextChar) ==
  LET endOfRow(width) ==
        [ st EXCEPT !.rows = Append(@, Append(st.currentRow, st.currentCell)),
                    !.currentRow = << >>,
                    !.currentCell = << >>,
                    !.i = @ + width ]
  IN  CASE st.insideQuotes /\ char = "\"" /\ nextChar = "\"" ->
             [ st EXCEPT !.currentCell = Append(@, "\""), !.i = @ + 2 ]
        [] st.insideQuotes /\ char = "\"" /\ nextChar # "\"" ->
             [ st EXCEPT !.insideQuotes = FALSE, !.i = @ + 1 ]
        [] st.insideQuotes /\ char # "\"" ->
             [ st EXCEPT !.currentCell = Append(@, char), !.i = @ + 1 ]
        [] ~st.insideQuotes /\ char = "\"" ->
             [ st EXCEPT !.insideQuotes = TRUE, !.i = @ + 1 ]
        [] ~st.insideQuotes /\ char = "," ->
             [ st EXCEPT !.currentRow = Append(@, st.currentCell),
                         !.currentCell = << >>, !.i = @ + 1 ]
        [] ~st.insideQuotes /\ char = "\r" /\ nextChar = "\n" -> endOfRow(2)
        [] ~st.insideQuotes /\ char = "\r" /\ nextChar # "\n" -> endOfRow(1)
        [] ~st.insideQuotes /\ char = "\n" -> endOfRow(1)
        [] OTHER -> [ st EXCEPT !.currentCell = Append(@, char), !.i = @ + 1 ]

\* CSV.parse: the loop, and the last cell and row after it.
RECURSIVE parseFrom(_, _)
parseFrom(text, st) ==
  IF st.i <= Len(text)
  THEN parseFrom(text, parseChar(st, text[st.i],
                                 IF st.i < Len(text) THEN text[st.i + 1]
                                 ELSE "undefined"))
  ELSE LET lastRow == Append(st.currentRow, st.currentCell)
       IN  IF \E c \in 1..Len(lastRow) : lastRow[c] # << >>
           THEN Append(st.rows, lastRow)
           ELSE st.rows

\* CSV.parse
parse(text) ==
  parseFrom(text, [ i |-> 1, rows |-> << >>, currentRow |-> << >>,
                    currentCell |-> << >>, insideQuotes |-> FALSE ])

\* R3Popup.isHeaderRow, for a row that may be missing
isHeaderRow(rows) ==
  /\ rows # << >>
  /\ rows[1] # << >>
  /\ trim(toLowerCase(rows[1][1])) \in { << "a", "c", "t", "i", "o", "n" >>, << "s", "t", "e", "p" >>, << "c", "o", "m", "m", "a", "n", "d" >> }

\* unescape of R3Popup.importCSV
unescape(str) ==
  LET trimmed == trim(str)
  IN  IF Len(trimmed) >= 2 /\ trimmed[1] = "'" /\ trimmed[2] \in { "=", "+", "-", "@" }
      THEN Tail(trimmed)
      ELSE trimmed

\* R3Popup.importCSV: the steps made of the text of the file
importCSV(csvText) ==
  LET rows == parse(csvText)
      startIndex == IF isHeaderRow(rows) THEN 2 ELSE 1
      cell(row, c) == IF c <= Len(row) THEN row[c] ELSE << >>
      kept == SelectSeq(SubSeq(rows, startIndex, Len(rows)),
                        LAMBDA row : Len(row) >= 1 /\ trim(row[1]) # << >>)
  IN  [ k \in 1..Len(kept) |->
          [ action |-> toUpperCase(unescape(cell(kept[k], 1))),
            target |-> unescape(cell(kept[k], 2)),
            value |-> unescape(cell(kept[k], 3)),
            description |-> unescape(cell(kept[k], 4)) ] ]

\* R3Popup.exportCSV: the text of the file made of the steps
exportCSV(steps) ==
  stringify(<< << << "A", "c", "t", "i", "o", "n" >>, << "T", "a", "r", "g", "e", "t", " ", "(", "S", "e", "l", "e", "c", "t", "o", "r", ")" >>,
                  << "V", "a", "l", "u", "e", " ", "(", "I", "n", "p", "u", "t", " ", "D", "a", "t", "a", ")" >>,
                  << "D", "e", "s", "c", "r", "i", "p", "t", "i", "o", "n", " ", "(", "O", "p", "t", "i", "o", "n", "a", "l", ")" >> >> >>
            \o [ k \in 1..Len(steps) |->
                   << steps[k].action, steps[k].target, steps[k].value,
                      steps[k].description >> ])

\* The popup exports its steps, which are not empty.
ExportCSV(steps) ==
  /\ csv.pc = "idle"
  /\ steps # << >>
  /\ csv' = [ pc |-> "exported", exported |-> steps, text |-> exportCSV(steps) ]
  /\ UNCHANGED << playback, recorder, tab, delivered, res, act, gen, store >>

\* The popup imports the exported file.
ImportCSV ==
  /\ csv.pc = "exported"
  /\ csv' = [ pc |-> "imported", exported |-> csv.exported, text |-> csv.text,
              steps |-> importCSV(csv.text) ]
  /\ UNCHANGED << playback, recorder, tab, delivered, res, act, gen, store >>

\* ----------------------------------------------------- recorded steps
\* Recording has started: startRecording pushed the OPEN step (step 0) and
\* saved it before START_RECORDING was sent. r3Steps is the stored list,
\* popupSteps is this.state.steps of the open popup, toPopup the
\* STEP_RECORDED messages on their way to the popup, handlers the calls of
\* saveRecordedStep in flight, recorded the number of steps recorded.
Recording ==
  [ r3Steps |-> << 0 >>, popupSteps |-> << 0 >>, toPopup |-> << >>,
    handlers |-> {}, recorded |-> 0 ]

\* R3Recorder sends STEP_RECORDED for the next step: the background calls
\* saveRecordedStep and the popup gets the message too.
StepRecorded ==
  /\ store.recorded < MaxRecorded
  /\ store' = [ store EXCEPT
                  !.recorded = @ + 1,
                  !.toPopup = Append(@, store.recorded + 1),
                  !.handlers = @ \cup { [ step |-> store.recorded + 1,
                                          pc |-> "get", steps |-> << >> ] } ]
  /\ UNCHANGED << playback, recorder, tab, delivered, res, act, gen, csv >>

\* R3Popup.handleMessage, case STEP_RECORDED
PopupStepRecorded ==
  /\ store.toPopup # << >>
  /\ store' = [ store EXCEPT !.toPopup = Tail(@),
                             !.popupSteps = Append(@, Head(store.toPopup)) ]
  /\ UNCHANGED << playback, recorder, tab, delivered, res, act, gen, csv >>

\* saveRecordedStep: chrome.storage.local.get has answered and the step is
\* pushed on the list read.
StorageGet(h) ==
  /\ h.pc = "get"
  /\ store' = [ store EXCEPT
                  !.handlers = ( @ \ { h } ) \cup
                    { [ h EXCEPT !.pc = "set",
                                 !.steps = Append(store.r3Steps, h.step) ] } ]
  /\ UNCHANGED << playback, recorder, tab, delivered, res, act, gen, csv >>

\* saveRecordedStep: chrome.storage.local.set writes the list.
StorageSet(h) ==
  /\ h.pc = "set"
  /\ store' = [ store EXCEPT !.handlers = @ \ { h }, !.r3Steps = h.steps ]
  /\ UNCHANGED << playback, recorder, tab, delivered, res, act, gen, csv >>

\* R3Popup.saveState, called while recording (the continue-on-error box, an
\* edited step): r3Steps becomes the popup's list.
PopupSaveState ==
  /\ store' = [ store EXCEPT !.r3Steps = store.popupSteps ]
  /\ UNCHANGED << playback, recorder, tab, delivered, res, act, gen, csv >>

\* -------------------------------------------------------------- background
\* A suspended async handler of the service worker.
\*   kind "start": startPlayback        pc nav -> load -> settle -> inject -> send
\*   kind "nav":   tabs.onUpdated       pc probe -> inject -> send
\*   kind "stop":  stopPlayback         pc await
\* steps/continueOnError/indexOffset are the arguments of injectPlayerAndStart,
\* all is the steps parameter of startPlayback, open tells whether startPlayback
\* took the OPEN branch.
Task(kind, pc, steps, coe, indexOffset, all, open) ==
  [ kind |-> kind, pc |-> pc, steps |-> steps, continueOnError |-> coe,
    indexOffset |-> indexOffset, all |-> all, open |-> open ]

\* Popup: R3Popup.startPlayback; background: handleMessage case
\* START_PLAYBACK and startPlayback up to its first await.
StartPlayback(steps, coe) ==
  /\ popup.mode = "idle"
  /\ session' = session + 1
  /\ popup' = [ mode |-> "playing", steps |-> steps, continueOnError |-> coe ]
  /\ playbackResults' =
       [ i \in 1..Len(steps) |-> IF i = 1 THEN "running" ELSE "pending" ]
  /\ LET open == steps[1] = "OPEN"
     IN  /\ state' = [ state EXCEPT !.playingTabId = Tab, !.steps = steps,
                         !.continueOnError = coe,
                         !.lastCompletedStepIndex = NoIndex,
                         !.isSettingUp = IF open THEN TRUE ELSE @ ]
         /\ tasks' = Append(tasks,
                       IF open
                       THEN Task("start", "nav", Slice(steps, 1), coe, 1, steps, TRUE)
                       ELSE Task("start", "inject", steps, coe, 0, steps, FALSE))
  /\ reports' = << >>
  /\ stopped' = FALSE
  /\ interrupted' = NoIndex
  /\ torn' = NoIndex
  /\ resumeFailed' = NoIndex
  /\ UNCHANGED << player, loops, queue, tabLoading, navs >>

\* startPlayback / tabs.onUpdated listener: the catch block of task t.
TaskCatch(t) ==
  LET tk == tasks[t]
      m == IF tk.kind = "start"
           THEN PlaybackCompleteMsg(FALSE, 0, Len(tk.all))
           ELSE PlaybackCompleteMsg(FALSE, tk.indexOffset, Len(state.steps))
  IN  /\ state' = [ state EXCEPT !.playingTabId = Null,
                      !.isSettingUp = IF tk.kind = "start" THEN FALSE ELSE @ ]
      /\ tasks' = RemoveAt(tasks, t)
      /\ reports' = Append(reports, m)
      /\ ForwardToPopup(<< m >>)
      /\ resumeFailed' = IF tk.kind = "nav" THEN tk.indexOffset ELSE resumeFailed

\* startPlayback: navigateTab(url, tabId) settles.  On success the tab starts
\* loading the URL and navigateTab stores the tab id again.
NavigateTabSettled(t, ok) ==
  /\ t \in 1..Len(tasks)
  /\ tasks[t].kind = "start" /\ tasks[t].pc = "nav"
  /\ IF ok
     THEN /\ TearDown
          /\ state' = [ state EXCEPT !.playingTabId = Tab ]
          /\ tasks' = [ tasks EXCEPT ![t].pc = "load" ]
          /\ UNCHANGED << popup, playbackResults, reports, resumeFailed >>
     ELSE /\ TaskCatch(t)
          /\ UNCHANGED << player, loops, tabLoading >>
  /\ UNCHANGED << queue, session, navs, stopped, interrupted, torn >>

\* startPlayback after `await loadPromise`: the OPEN step is reported and
\* injectPlayerAndStart(tabId, steps.slice(1), continueOnError, 1) begins.
OpenReported(t) ==
  LET m == StepCompleteMsg(0, "success")
  IN  /\ state' = [ state EXCEPT !.lastCompletedStepIndex = 0 ]
      /\ tasks' = [ tasks EXCEPT ![t].pc = "inject" ]
      /\ reports' = Append(reports, m)
      /\ ForwardToPopup(<< m >>)
      /\ UNCHANGED << player, loops, queue, tabLoading, session, navs,
                      stopped, interrupted, torn, resumeFailed >>

\* waitForTabLoad: the 500 ms timer armed by the load listener fires.
WaitForTabLoadResolved(t) ==
  /\ t \in 1..Len(tasks)
  /\ tasks[t].kind = "start" /\ tasks[t].pc = "settle"
  /\ OpenReported(t)

\* waitForTabLoad: the 10 s fallback timer fires before the tab is complete.
WaitForTabLoadTimeout(t) ==
  /\ t \in 1..Len(tasks)
  /\ tasks[t].kind = "start" /\ tasks[t].pc = "load"
  /\ OpenReported(t)

\* injectPlayerAndStart: the two injectScript calls settle.  ok is whether the
\* tab accepts scripts; player.js creates window.R3Player unless present.
InjectScripts(t, ok) ==
  /\ t \in 1..Len(tasks)
  /\ tasks[t].kind \in {"start", "nav"} /\ tasks[t].pc = "inject"
  /\ IF ok
     THEN /\ player' = IF player.exists THEN player ELSE NewPlayer
          /\ tasks' = [ tasks EXCEPT ![t].pc = "send" ]
          /\ UNCHANGED << popup, playbackResults, state, reports, resumeFailed >>
     ELSE /\ TaskCatch(t)
          /\ UNCHANGED player
  /\ UNCHANGED << loops, queue, tabLoading, session, navs, stopped,
                  interrupted, torn >>

\* injectPlayerAndStart: chrome.tabs.sendMessage(START_PLAYBACK) settles.  With
\* a player in the page its listener runs R3Player.start; otherwise the call
\* rejects and the caller's catch block runs.
SendStartPlayback(t) ==
  /\ t \in 1..Len(tasks)
  /\ tasks[t].kind \in {"start", "nav"} /\ tasks[t].pc = "send"
  /\ IF player.exists
     THEN /\ PlayerStart(tasks[t].steps, tasks[t].continueOnError,
                         tasks[t].indexOffset)
          /\ state' = [ state EXCEPT
                          !.isSettingUp = IF tasks[t].open THEN FALSE ELSE @ ]
          /\ tasks' = RemoveAt(tasks, t)
          /\ UNCHANGED << popup, playbackResults, resumeFailed, torn >>
     ELSE /\ TaskCatch(t)
          /\ UNCHANGED << player, loops, queue, torn >>
  /\ UNCHANGED << tabLoading, session, navs, stopped, interrupted >>

\* handleMessage, cases STEP_COMPLETE and PLAYBACK_COMPLETE, for the oldest
\* message in flight from the player.
HandleMessage ==
  /\ queue # << >>
  /\ LET m == Head(queue)
     IN  /\ state' = IF m.type = "STEP_COMPLETE"
                     THEN [ state EXCEPT !.lastCompletedStepIndex = m.index ]
                     ELSE [ state EXCEPT !.playingTabId = Null,
                                         !.lastCompletedStepIndex = NoIndex ]
         /\ ForwardToPopup(<< m >>)
  /\ queue' = Tail(queue)
  /\ UNCHANGED << tasks, player, loops, tabLoading, session, navs, reports,
                  stopped, interrupted, torn, resumeFailed >>

\* The playback listener of chrome.tabs.onUpdated without its test of
\* state.playingTabId: resumption for any tab that reports 'complete'.
TabCompleteAnyTab ==
  /\ tabLoading
  /\ tabLoading' = FALSE
  /\ LET armed == [ t \in 1..Len(tasks) |->
                      IF tasks[t].kind = "start" /\ tasks[t].pc = "load"
                      THEN [ tasks[t] EXCEPT !.pc = "settle" ] ELSE tasks[t] ]
     IN  IF ~state.isSettingUp /\ state.lastCompletedStepIndex >= 0
         THEN tasks' = Append(armed, Task("nav", "probe", << >>, FALSE, 0, << >>, FALSE))
         ELSE tasks' = armed
  /\ UNCHANGED << popup, playbackResults, state, player, loops, queue, session,
                  navs, reports, stopped, interrupted, torn, resumeFailed >>

\* chrome.tabs.onUpdated fires with status 'complete' for the tab: the load
\* listener of every waitForTabLoad arms its 500 ms timer, and the playback
\* listener, past its three guards, sends the GET_STATUS probe.
TabComplete ==
  /\ tabLoading
  /\ tabLoading' = FALSE
  /\ LET armed == [ t \in 1..Len(tasks) |->
                      IF tasks[t].kind = "start" /\ tasks[t].pc = "load"
                      THEN [ tasks[t] EXCEPT !.pc = "settle" ] ELSE tasks[t] ]
     IN  IF /\ state.playingTabId = Tab
            /\ ~state.isSettingUp
            /\ state.lastCompletedStepIndex >= 0
         THEN tasks' = Append(armed, Task("nav", "probe", << >>, FALSE, 0, << >>, FALSE))
         ELSE tasks' = armed
  /\ UNCHANGED << popup, playbackResults, state, player, loops, queue, session,
                  navs, reports, stopped, interrupted, torn, resumeFailed >>

\* tabs.onUpdated listener after the GET_STATUS probe settles: return if the
\* player answers isPlaying, else credit the step after lastCompletedStepIndex
\* and either report completion or begin injectPlayerAndStart for the rest.
ProbeSettled(t) ==
  /\ t \in 1..Len(tasks)
  /\ tasks[t].kind = "nav" /\ tasks[t].pc = "probe"
  /\ LET navStepIndex == state.lastCompletedStepIndex + 1
         continueFrom == navStepIndex + 1
         sc == StepCompleteMsg(navStepIndex, "success")
         pcm == PlaybackCompleteMsg(TRUE, NoIndex, Len(state.steps))
     IN  IF (player.exists /\ player.isPlaying) \/ navStepIndex >= Len(state.steps)
         THEN /\ tasks' = RemoveAt(tasks, t)
              /\ UNCHANGED << popup, playbackResults, state, reports >>
         ELSE IF continueFrom >= Len(state.steps)
         THEN /\ state' = [ state EXCEPT !.lastCompletedStepIndex = navStepIndex,
                                         !.playingTabId = Null ]
              /\ tasks' = RemoveAt(tasks, t)
              /\ reports' = reports \o << sc, pcm >>
              /\ ForwardToPopup(<< sc, pcm >>)
         ELSE /\ state' = [ state EXCEPT !.lastCompletedStepIndex = navStepIndex ]
              /\ tasks' = [ tasks EXCEPT ![t] =
                              Task("nav", "inject", Slice(state.steps, continueFrom),
                                   state.continueOnError, continueFrom, << >>, FALSE) ]
              /\ reports' = Append(reports, sc)
              /\ ForwardToPopup(<< sc >>)
  /\ UNCHANGED << player, loops, queue, tabLoading, session, navs, stopped,
                  interrupted, torn, resumeFailed >>

\* Popup: R3Popup.stopPlayback sends STOP_PLAYBACK; background: stopPlayback.
\* With a playing tab the message goes to the tab, where the player's listener
\* runs R3Player.stop, and stopPlayback suspends; without one it finishes and
\* the popup gets its response.
StopPlayback ==
  /\ popup.mode = "playing"
  /\ \A t \in 1..Len(tasks) : tasks[t].kind # "stop"
  /\ IF state.playingTabId # Null
     THEN /\ tasks' = Append(tasks, Task("stop", "await", << >>, FALSE, 0, << >>, FALSE))
          /\ player' = IF player.exists THEN [ player EXCEPT !.isPlaying = FALSE ]
                                        ELSE player
          /\ interrupted' = IF player.exists /\ player.isPlaying THEN InFlight
                                                                 ELSE interrupted
          /\ UNCHANGED << popup, state, stopped >>
     ELSE /\ state' = [ state EXCEPT !.lastCompletedStepIndex = NoIndex ]
          /\ popup' = [ popup EXCEPT !.mode = "idle" ]
          /\ stopped' = TRUE
          /\ UNCHANGED << tasks, player, interrupted >>
  /\ UNCHANGED << playbackResults, loops, queue, tabLoading, session, navs,
                  reports, torn, resumeFailed >>

\* stopPlayback after chrome.tabs.sendMessage(STOP_PLAYBACK) settles; the
\* response then lets R3Popup.stopPlayback set its mode to idle.
StopPlaybackSettled(t) ==
  /\ t \in 1..Len(tasks)
  /\ tasks[t].kind = "stop"
  /\ state' = [ state EXCEPT !.playingTabId = Null,
                             !.lastCompletedStepIndex = NoIndex ]
  /\ tasks' = RemoveAt(tasks, t)
  /\ popup' = [ popup EXCEPT !.mode = "idle" ]
  /\ stopped' = TRUE
  /\ UNCHANGED << playbackResults, player, loops, queue, tabLoading, session,
                  navs, reports, interrupted, torn, resumeFailed >>

\* The page in the playing tab navigates (a link or form the running step
\* activated, a redirect, a reload).
Navigate ==
  /\ state.playingTabId = Tab
  /\ navs < MaxNavs
  /\ navs' = navs + 1
  /\ torn' = InFlight
  /\ TearDown
  /\ UNCHANGED << popup, playbackResults, state, tasks, queue, session,
                  reports, stopped, interrupted, resumeFailed >>

\* Popup: R3Popup.startRecording pushes the OPEN step, sets its mode and sends
\* START_RECORDING; background: startRecording up to its first await.
StartRecording ==
  /\ popup.mode = "idle"
  /\ Len(popup.steps) < MaxSteps
  /\ popup' = [ popup EXCEPT !.mode = "recording", !.steps = Append(@, "OPEN") ]
  /\ state' = [ state EXCEPT !.recordingTabId = Tab ]
  /\ tasks' = Append(tasks, Task("record", "inject", << >>, FALSE, 0, << >>, FALSE))
  /\ UNCHANGED << playbackResults, player, loops, queue, tabLoading, session,
                  navs, reports, stopped, interrupted, torn, resumeFailed,
                  recorder >>

\* startRecording: the two injectScript calls settle.  content/recorder.js
\* starts a recorder that is already in the page, and creates one otherwise.
RecorderInjected(t) ==
  /\ t \in 1..Len(tasks)
  /\ tasks[t].kind = "record" /\ tasks[t].pc = "inject"
  /\ recorder' = IF recorder.exists THEN RecorderStart(recorder) ELSE NewRecorder
  /\ tasks' = [ tasks EXCEPT ![t].pc = "send" ]
  /\ UNCHANGED playback_but_tasks

\* startRecording: chrome.tabs.sendMessage(START_RECORDING) settles after the
\* recorder's listener ran R3Recorder.start.
RecorderStartSent(t) ==
  /\ t \in 1..Len(tasks)
  /\ tasks[t].kind = "record" /\ tasks[t].pc = "send"
  /\ recorder.exists
  /\ recorder' = RecorderStart(recorder)
  /\ tasks' = RemoveAt(tasks, t)
  /\ UNCHANGED playback_but_tasks

\* Popup: R3Popup.stopRecording sends STOP_RECORDING; background:
\* stopRecording.  With a recording tab the message goes to the tab, where
\* the recorder's listener (if there is one) runs R3Recorder.stop.
StopRecording ==
  /\ popup.mode = "recording"
  /\ \A t \in 1..Len(tasks) : tasks[t].kind # "stoprec"
  /\ IF state.recordingTabId # Null
     THEN /\ tasks' = Append(tasks, Task("stoprec", "await", << >>, FALSE, 0, << >>, FALSE))
          /\ recorder' = IF recorder.exists THEN RecorderStop(recorder) ELSE recorder
          /\ UNCHANGED << popup, state >>
     ELSE /\ popup' = [ popup EXCEPT !.mode = "idle" ]
          /\ UNCHANGED << tasks, recorder, state >>
  /\ UNCHANGED << playbackResults, player, loops, queue, tabLoading, session,
                  navs, reports, stopped, interrupted, torn, resumeFailed >>

\* stopRecording after chrome.tabs.sendMessage(STOP_RECORDING) settles; the
\* response then lets R3Popup.stopRecording set its mode to idle.
StopRecordingSettled(t) ==
  /\ t \in 1..Len(tasks)
  /\ tasks[t].kind = "stoprec"
  /\ state' = [ state EXCEPT !.recordingTabId = Null ]
  /\ tasks' = RemoveAt(tasks, t)
  /\ popup' = [ popup EXCEPT !.mode = "idle" ]
  /\ UNCHANGED << playbackResults, player, loops, queue, tabLoading, session,
                  navs, reports, stopped, interrupted, torn, resumeFailed,
                  recorder >>

\* The START_PLAYBACK message of task t reaches the player (SendStartPlayback),
\* and is remembered as delivered.
StartDelivered(t) ==
  /\ SendStartPlayback(t)
  /\ delivered' =
       IF player.exists
       THEN [ delivered EXCEPT !.toPlayer = @ \cup
                { [ steps |-> tasks[t].steps,
                    continueOnError |-> tasks[t].continueOnError,
                    indexOffset |-> tasks[t].indexOffset ] } ]
       ELSE delivered

\* The oldest message of the player reaches the background (HandleMessage),
\* and is remembered as delivered.
MessageDelivered ==
  /\ HandleMessage
  /\ delivered' = [ delivered EXCEPT !.toController = @ \cup { Head(queue) } ]

\* At-least-once delivery: a STEP_COMPLETE or PLAYBACK_COMPLETE message the
\* background has handled reaches handleMessage once more.
MessageRedelivered(m) ==
  /\ m \in delivered.toController
  /\ delivered.again < MaxDups
  /\ delivered' = [ delivered EXCEPT !.again = @ + 1 ]
  /\ state' = IF m.type = "STEP_COMPLETE"
              THEN [ state EXCEPT !.lastCompletedStepIndex = m.index ]
              ELSE [ state EXCEPT !.playingTabId = Null,
                                  !.lastCompletedStepIndex = NoIndex ]
  /\ ForwardToPopup(<< m >>)
  /\ UNCHANGED << tasks, player, loops, queue, tabLoading, session, navs,
                  reports, stopped, interrupted, torn, resumeFailed >>

\* At-least-once delivery: a START_PLAYBACK message the player has handled
\* reaches the player's listener, and with it R3Player.start, once more.
StartRedelivered(m) ==
  /\ m \in delivered.toPlayer
  /\ delivered.again < MaxDups
  /\ player.exists
  /\ delivered' = [ delivered EXCEPT !.again = @ + 1 ]
  /\ PlayerStart(m.steps, m.continueOnError, m.indexOffset)
  /\ UNCHANGED << popup, playbackResults, state, tasks, tabLoading, session,
                  navs, stopped, interrupted, torn, resumeFailed >>

\* The tab is closed: its page, player and recorder are gone, and the
\* chrome.tabs.onRemoved listener runs.  Messages the player had sent are
\* still handled.
TabClosed ==
  /\ ~tab.closed
  /\ tab' = [ tab EXCEPT !.closed = TRUE ]
  /\ player' = NoPlayer
  /\ loops' = << >>
  /\ recorder' = NoRecorder
  /\ LET wasRecording == state.recordingTabId = Tab
         wasPlaying == state.playingTabId = Tab
         m == PlaybackCompleteMsg(FALSE, NoIndex, Len(state.steps))
     IN  /\ state' = [ state EXCEPT
                         !.recordingTabId = IF wasRecording THEN Null ELSE @,
                         !.playingTabId = IF wasPlaying THEN Null ELSE @ ]
         /\ reports' = IF wasPlaying THEN Append(reports, m) ELSE reports
         /\ playbackResults' = playbackResults
         /\ popup' = IF wasRecording \/ wasPlaying
                     THEN [ popup EXCEPT !.mode = "idle" ] ELSE popup
  /\ UNCHANGED << tasks, queue, tabLoading, session, navs, stopped,
                  interrupted, torn, resumeFailed >>

\* chrome.tabs.onUpdated fires with status 'complete' (TabComplete); a signal
\* that is dispatched after the tab was closed is remembered.
TabCompleteSignal ==
  /\ TabComplete
  /\ tab' = [ tab EXCEPT !.signalled = tab.closed ]

\* The popup window is closed and opened again.  The R3Popup constructor
\* starts from an empty playbackResults, and loadState reads mode,
\* continueOnError and steps back from chrome.storage.local, where saveState
\* wrote them at the last change of mode.
PopupReopened ==
  /\ popup' = [ mode |-> popup.mode, steps |-> popup.steps,
                continueOnError |-> popup.continueOnError ]
  /\ playbackResults' = << >>
  /\ UNCHANGED << state, tasks, player, loops, queue, tabLoading, session,
                  navs, reports, stopped, interrupted, torn, resumeFailed >>

\* ------------------------------------------------------------ specification
Init ==
  /\ popup = [ mode |-> "idle", steps |-> << >>, continueOnError |-> FALSE ]
  /\ playbackResults = << >>
  /\ state = [ recordingTabId |-> Null, playingTabId |-> Null, steps |-> << >>,
               continueOnError |-> FALSE, lastCompletedStepIndex |-> NoIndex,
               isSettingUp |-> FALSE ]
  /\ tasks = << >>
  /\ player = NoPlayer
  /\ loops = << >>
  /\ queue = << >>
  /\ tabLoading = FALSE
  /\ session = 0
  /\ navs = 0
  /\ reports = << >>
  /\ stopped = FALSE
  /\ interrupted = NoIndex
  /\ torn = NoIndex
  /\ resumeFailed = NoIndex
  /\ recorder = NoRecorder
  /\ tab = [ closed |-> FALSE, signalled |-> FALSE ]
  /\ delivered = [ toController |-> {}, toPlayer |-> {}, again |-> 0 ]
  /\ res = NoRun
  /\ act = NoRun
  /\ gen = NoRun
  /\ csv = NoRun
  /\ store = Recording

\* Injection, message handling and the step loop.
Run ==
  \/ \E t \in 1..Len(tasks) : InjectScripts(t, TRUE) /\ UNCHANGED others
  \/ \E t \in 1..Len(tasks) : SendStartPlayback(t) /\ UNCHANGED others
  \/ HandleMessage /\ UNCHANGED others
  \/ \E l \in 1..Len(loops), found \in BOOLEAN :
       PlayStepsExecuted(l, found) /\ UNCHANGED others
  \/ \E l \in 1..Len(loops) : PlayStepsDelayed(l) /\ UNCHANGED others

\* Page loads: the initial OPEN and the resumption after a navigation.
Load ==
  \/ \E t \in 1..Len(tasks) : NavigateTabSettled(t, TRUE) /\ UNCHANGED others
  \/ \E t \in 1..Len(tasks) : WaitForTabLoadResolved(t) /\ UNCHANGED others
  \/ TabComplete /\ UNCHANGED others
  \/ \E t \in 1..Len(tasks) : ProbeSettled(t) /\ UNCHANGED others

\* Page navigations during playback, and the calls that can be refused.
Disturb ==
  \/ Navigate /\ UNCHANGED others
  \/ \E t \in 1..Len(tasks) : NavigateTabSettled(t, FALSE) /\ UNCHANGED others
  \/ \E t \in 1..Len(tasks) : WaitForTabLoadTimeout(t) /\ UNCHANGED others
  \/ \E t \in 1..Len(tasks) : InjectScripts(t, FALSE) /\ UNCHANGED others

\* One playback session that is never stopped.
NextPlay ==
  \/ \E steps \in StepLists, coe \in BOOLEAN :
       session = 0 /\ StartPlayback(steps, coe) /\ UNCHANGED others
  \/ Run
  \/ Load
  \/ Disturb

SpecPlay == Init /\ [][NextPlay]_vars

\* Sessions of element actions, started and stopped from the popup, on a page
\* that stays.
Next ==
  \/ \E steps \in ElementLists, coe \in BOOLEAN :
       session < MaxSessions /\ StartPlayback(steps, coe) /\ UNCHANGED others
  \/ StopPlayback /\ UNCHANGED others
  \/ \E t \in 1..Len(tasks) : StopPlaybackSettled(t) /\ UNCHANGED others
  \/ Run

Spec == Init /\ [][Next]_vars

\* One session of element actions while the popup is closed and reopened.
NextPopup ==
  \/ \E steps \in ElementLists, coe \in BOOLEAN :
       session = 0 /\ StartPlayback(steps, coe) /\ UNCHANGED others
  \/ PopupReopened /\ UNCHANGED others
  \/ Run

SpecPopup == Init /\ [][NextPopup]_vars

\* One playback session and recordings, started and stopped from the popup.
NextModes ==
  \/ \E steps \in ElementLists, coe \in BOOLEAN :
       session = 0 /\ StartPlayback(steps, coe) /\ UNCHANGED others
  \/ StopPlayback /\ UNCHANGED others
  \/ \E t \in 1..Len(tasks) : StopPlaybackSettled(t) /\ UNCHANGED others
  \/ StartRecording /\ UNCHANGED << tab, delivered, res, act, gen, csv, store >>
  \/ \E t \in 1..Len(tasks) : RecorderInjected(t) /\ UNCHANGED << tab, delivered, res, act, gen, csv, store >>
  \/ \E t \in 1..Len(tasks) : RecorderStartSent(t) /\ UNCHANGED << tab, delivered, res, act, gen, csv, store >>
  \/ StopRecording /\ UNCHANGED << tab, delivered, res, act, gen, csv, store >>
  \/ \E t \in 1..Len(tasks) : StopRecordingSettled(t) /\ UNCHANGED << tab, delivered, res, act, gen, csv, store >>
  \/ Run

SpecModes == Init /\ [][NextModes]_vars

\* One session of steps of several action kinds, which the popup may stop.
NextKinds ==
  \/ \E steps \in KindLists, coe \in BOOLEAN :
       session = 0 /\ StartPlayback(steps, coe) /\ UNCHANGED others
  \/ StopPlayback /\ UNCHANGED others
  \/ \E t \in 1..Len(tasks) : StopPlaybackSettled(t) /\ UNCHANGED others
  \/ Run

SpecKinds == Init /\ [][NextKinds]_vars

\* One session of element actions whose messages may be delivered again.
NextDup ==
  \/ \E steps \in ElementLists, coe \in BOOLEAN :
       session = 0 /\ StartPlayback(steps, coe) /\ UNCHANGED others
  \/ \E t \in 1..Len(tasks) : InjectScripts(t, TRUE) /\ UNCHANGED others
  \/ \E t \in 1..Len(tasks) : StartDelivered(t) /\ UNCHANGED << recorder, tab, res, act, gen, csv, store >>
  \/ MessageDelivered /\ UNCHANGED << recorder, tab, res, act, gen, csv, store >>
  \/ \E l \in 1..Len(loops), found \in BOOLEAN :
       PlayStepsExecuted(l, found) /\ UNCHANGED others
  \/ \E l \in 1..Len(loops) : PlayStepsDelayed(l) /\ UNCHANGED others
  \/ \E m \in delivered.toController :
       MessageRedelivered(m) /\ UNCHANGED << recorder, tab, res, act, gen, csv, store >>
  \/ \E m \in delivered.toPlayer :
       StartRedelivered(m) /\ UNCHANGED << recorder, tab, res, act, gen, csv, store >>

SpecDup == Init /\ [][NextDup]_vars

\* One session that is never stopped, in a tab that may navigate and may be
\* closed; a closed tab accepts neither navigation nor scripts.
NextClose ==
  \/ \E steps \in StepLists, coe \in BOOLEAN :
       session = 0 /\ ~tab.closed /\ StartPlayback(steps, coe) /\ UNCHANGED others
  \/ \E t \in 1..Len(tasks) :
       NavigateTabSettled(t, ~tab.closed) /\ UNCHANGED others
  \/ \E t \in 1..Len(tasks) : WaitForTabLoadResolved(t) /\ UNCHANGED others
  \/ \E t \in 1..Len(tasks) : InjectScripts(t, ~tab.closed) /\ UNCHANGED others
  \/ \E t \in 1..Len(tasks) : SendStartPlayback(t) /\ UNCHANGED others
  \/ HandleMessage /\ UNCHANGED others
  \/ \E l \in 1..Len(loops), found \in BOOLEAN :
       PlayStepsExecuted(l, found) /\ UNCHANGED others
  \/ \E l \in 1..Len(loops) : PlayStepsDelayed(l) /\ UNCHANGED others
  \/ ~tab.closed /\ Navigate /\ UNCHANGED others
  \/ TabCompleteSignal /\ UNCHANGED << recorder, delivered, res, act, gen, csv, store >>
  \/ \E t \in 1..Len(tasks) : ProbeSettled(t) /\ UNCHANGED others
  \/ TabClosed /\ UNCHANGED << delivered, res, act, gen, csv, store >>

SpecClose == Init /\ [][NextClose]_vars

\* One call of the resolver on a page that changes while it polls.
NextResolver ==
  \/ res.pc = "idle" /\
       \E selector \in Selectors, dom \in Doms, timeout \in Timeouts :
         WaitForElementCalled(selector, dom, timeout)
  \/ WaitForElementTick
  \/ PollDelayElapsed
  \/ res.pc = "sleeping" /\
       \E dom \in Changes(res.dom, MaxEls - NumEls(res.dom)) : DomChanged(dom)
  \/ StoppedWhilePolling

SpecResolver == Init /\ [][NextResolver]_vars

\* One action of the player on the element its resolver returned.
NextActions ==
  \/ act.pc = "idle" /\
       \E action \in { "CLICK", "TYPE_CHAR", "TYPE", "CLEAR", "CHECK", "UNCHECK" },
          element \in Elements, value \in Words :
         ElementResolved(action, element, value)
  \/ ActionClick
  \/ ActionTypeOrClear
  \/ ActionCheck
  \/ TypeCharBegin
  \/ TypeCharKey
  \/ TypeCharPaused
  \/ StoppedBetweenCharacters

SpecActions == Init /\ [][NextActions]_vars

\* One SELECT step on the element its resolver returned.
NextSelect ==
  \/ act.pc = "idle" /\
       \E element \in SelectTargets, value \in Words :
         ElementResolved("SELECT", element, value)
  \/ ActionSelect

SpecSelect == Init /\ [][NextSelect]_vars

\* Calls of the functions of SelectorUtils.
NextSelectorUtils ==
  \/ gen.pc = "idle" /\
       \E element \in GenInputs : GenerateSelectorCalled(element)
  \/ gen.pc = "idle" /\ \E id \in Ids : FilterCalled("isValidId", id)
  \/ gen.pc = "idle" /\
       \E className \in ClassWords : FilterCalled("isDynamicClass", className)

SpecSelectorUtils == Init /\ [][NextSelectorUtils]_vars

\* Export of the popup's steps to a CSV file and import of that file.
NextCsv ==
  \/ csv.pc = "idle" /\ \E steps \in CsvStepLists : ExportCSV(steps)
  \/ ImportCSV

SpecCsv == Init /\ [][NextCsv]_vars

\* Steps recorded while the popup is open.
NextStore ==
  \/ StepRecorded
  \/ PopupStepRecorded
  \/ \E h \in store.handlers : StorageGet(h)
  \/ \E h \in store.handlers : StorageSet(h)
  \/ PopupSaveState

SpecStore == Init /\ [][NextStore]_vars

\* ------------------------------------------------------------- vocabulary
\* of the properties below
Range(s) == { s[k] : k \in 1..Len(s) }

StepIndices == 0..(Len(popup.steps) - 1)

StepReports(k) ==
  { j \in 1..Len(reports) : reports[j].type = "STEP_COMPLETE" /\ reports[j].index = k }

CompleteReports == { j \in 1..Len(reports) : reports[j].type = "PLAYBACK_COMPLETE" }

ReportedFailed(k) == StepCompleteMsg(k, "failed") \in Range(reports)

ReportedSuccess(k) == StepCompleteMsg(k, "success") \in Range(reports)

Executing == { l \in 1..Len(loops) : loops[l].pc = "exec" }

\* A call of the setup or of the resumption was refused: the catch block
\* reported a failedStep that no STEP_COMPLETE reported failed.
Refused ==
  \E j \in CompleteReports :
    /\ ~reports[j].success
    /\ reports[j].failedStep >= 0
    /\ ~ReportedFailed(reports[j].failedStep)

\* Nothing is left to run: no suspended handler, no step loop, no message in
\* flight, no page load under way.
Quiescent ==
  /\ session >= 1
  /\ tasks = << >> /\ loops = << >> /\ queue = << >> /\ ~tabLoading

\* ------------------------------------------------------------------ C1
\* C1: with continueOnError = false and neither navigation nor stop, once the
\* popup has processed PLAYBACK_COMPLETE after step k failed, the outcomes are
\* success below k, failed at k and pending above k, and the message carries
\* success = false and failedStep = k.
C1_FailStopOutcomes ==
  \A k \in StepIndices :
    ( /\ ~popup.continueOnError
      /\ navs = 0
      /\ ReportedFailed(k)
      /\ queue = << >> /\ popup.mode = "idle" )
    => /\ \A i \in StepIndices :
            playbackResults[i + 1] = IF i < k THEN "success"
                                     ELSE IF i = k THEN "failed" ELSE "pending"
       /\ reports[Len(reports)] =
            PlaybackCompleteMsg(FALSE, k, Len(popup.steps))

\* ------------------------------------------------------------------ C2
\* The navigation-complete signal for a live session whose step torn was in
\* flight when the page went away makes the controller probe the tab.
C2_SignalStep ==
  ( /\ TabComplete
    /\ torn >= 0
    /\ state.playingTabId = Tab /\ ~state.isSettingUp
    /\ ~player.exists )
  => \E t \in 1..Len(tasks') : tasks'[t].kind = "nav" /\ tasks'[t].pc = "probe"

\* A probe that no player answers credits step torn and hands the steps after
\* it to injectPlayerAndStart with indexOffset torn + 1.
C2_ProbeStep ==
  \A t \in 1..Len(tasks) :
    ( /\ ProbeSettled(t)
      /\ torn >= 0
      /\ ~player.exists )
    => /\ Len(reports') > Len(reports)
       /\ reports'[Len(reports) + 1] = StepCompleteMsg(torn, "success")
       /\ IF torn + 1 < Len(state.steps)
          THEN /\ Len(tasks') = Len(tasks)
               /\ tasks'[t].pc = "inject"
               /\ tasks'[t].indexOffset = torn + 1
               /\ tasks'[t].steps = Slice(state.steps, torn + 1)
          ELSE reports'[Len(reports')].type = "PLAYBACK_COMPLETE"

\* C2: for every k, when the navigation-complete signal arrives while step k
\* is in flight on a page that was torn down (no player answers the probe),
\* the controller probes, reports STEP_COMPLETE(k, success) and begins
\* starting a player with the steps after k and indexOffset k + 1 (or, when k
\* is the last step, reports the playback complete).
C2_ResumeCreditsInFlightStep == [][C2_SignalStep /\ C2_ProbeStep]_vars

\* ------------------------------------------------------------------ C3
\* C3: a session that is not stopped ends with a PLAYBACK_COMPLETE report
\* wherever a navigation destroyed the player: when nothing is left to run,
\* the report has been made, and if every step was reported success it
\* carries success = true and totalSteps = n.
C3_CompletesWhenDone ==
  Quiescent =>
    /\ CompleteReports # {}
    /\ ( /\ \A k \in StepIndices : ReportedSuccess(k) /\ ~ReportedFailed(k)
         /\ ~Refused )
         => PlaybackCompleteMsg(TRUE, NoIndex, Len(popup.steps)) \in Range(reports)

\* ------------------------------------------------------------------ C4
\* C4: every reported STEP_COMPLETE index lies in [0, n), the steps a player
\* runs are the steps of the full list from its index offset on, and every
\* PLAYBACK_COMPLETE carries totalSteps = n.
C4_GlobalIndices ==
  /\ \A j \in 1..Len(reports) :
       IF reports[j].type = "STEP_COMPLETE"
       THEN reports[j].index \in StepIndices
       ELSE reports[j].totalSteps = Len(popup.steps)
  /\ loops # << >> => player.steps = Slice(popup.steps, player.indexOffset)

\* ------------------------------------------------------------------ C5
\* C5: the step that was in flight when STOP_PLAYBACK reached the player is
\* never reported failed, and no PLAYBACK_COMPLETE names it as failedStep.
C5_StopIsNotAFailure ==
  interrupted >= 0 =>
    /\ ~ReportedFailed(interrupted)
    /\ \A j \in CompleteReports : reports[j].failedStep # interrupted

\* ------------------------------------------------------------------ C6
\* C6: at most one step is executing in the tab at any moment.
C6_OneStepAtATime == Cardinality(Executing) <= 1

\* ------------------------------------------------------------------ C7
\* C7: with continueOnError = true and neither navigation nor stop, the
\* reports of a finished session are STEP_COMPLETE for 0, 1, ..., n-1 in that
\* order, once each, followed by a single PLAYBACK_COMPLETE whose success is
\* false iff some step was reported failed.  (A session whose setup was
\* refused has executed no step and is left aside.)
C7_ContinueRunsEveryStep ==
  ( /\ popup.continueOnError
    /\ navs = 0
    /\ ~Refused
    /\ CompleteReports # {} )
  => /\ Len(reports) = Len(popup.steps) + 1
     /\ \A i \in StepIndices :
          reports[i + 1].type = "STEP_COMPLETE" /\ reports[i + 1].index = i
     /\ LET last == reports[Len(reports)]
        IN  /\ last.type = "PLAYBACK_COMPLETE"
            /\ last.totalSteps = Len(popup.steps)
            /\ last.success <=> ~(\E k \in StepIndices : ReportedFailed(k))

\* ------------------------------------------------------------------ C8
\* C8: once re-injecting the player after a teardown has failed, the last
\* report is PLAYBACK_COMPLETE(false, first step not resumed, n),
\* playingTabId is cleared and no step is executing.
C8_ResumeFailureEndsSession ==
  resumeFailed >= 0 =>
    /\ state.playingTabId = Null
    /\ reports[Len(reports)] =
         PlaybackCompleteMsg(FALSE, resumeFailed, Len(popup.steps))
    /\ loops = << >>

\* ------------------------------------------------------------------ C9
\* No step index has two STEP_COMPLETE reports in the session.
C9_AtMostOnce == \A k \in StepIndices : Cardinality(StepReports(k)) <= 1

\* Within the session a success or failed outcome is not overwritten.
C9_TerminalStays ==
  session' = session =>
    \A i \in 1..Len(playbackResults) :
      playbackResults[i] \in {"success", "failed"}
        => playbackResults'[i] = playbackResults[i]

\* C9: each step index has at most one STEP_COMPLETE report per session, and
\* an outcome that is success or failed stays what it is, also when several
\* navigation-complete signals are handled concurrently.
C9_OneTerminalOutcomePerStep == []C9_AtMostOnce /\ [][C9_TerminalStays]_vars

\* ------------------------------------------------------------------ C10
\* While the session stays live the cursor does not go back.
C10_Monotonic ==
  ( /\ session' = session
    /\ state.playingTabId = Tab /\ state'.playingTabId = Tab )
  => state'.lastCompletedStepIndex >= state.lastCompletedStepIndex

\* Once STOP_PLAYBACK has been handled the cursor keeps its value.
C10_FrozenAfterStop ==
  (stopped /\ stopped')
  => state'.lastCompletedStepIndex = state.lastCompletedStepIndex

\* C10: within a session lastCompletedStepIndex never decreases while the
\* session is live, and once STOP_PLAYBACK has been handled it no longer
\* changes.
C10_CursorMonotoneThenFrozen == [][C10_Monotonic /\ C10_FrozenAfterStop]_vars

\* ------------------------------------------------------------------ C11
\* C11: whenever the popup is in playing mode, playbackResults has exactly one
\* entry per step, also after the popup was closed and reopened.
C11_OneOutcomePerStep ==
  popup.mode = "playing" => Len(playbackResults) = Len(popup.steps)

\* ------------------------------------------------------------------ C12
\* C12: in no reachable state is the recorder of the tab recording while the
\* player of the tab is playing.
C12_RecordingExcludesPlayback == ~(recorder.isRecording /\ player.isPlaying)

\* ------------------------------------------------------------------ C13
\* C13: a step that was in flight - in resolver polling or in a fixed delay -
\* when stop() was called ends with a cancellation error: it is never
\* reported success.
C13_StoppedWaitIsNotSuccess ==
  interrupted >= 0 => ~ReportedSuccess(interrupted)

\* ------------------------------------------------------------------ C14
\* C14: while the session is live, a STEP_COMPLETE, PLAYBACK_COMPLETE or
\* START_PLAYBACK message that is delivered a second time changes neither the
\* controller state nor the outcomes array nor the steps being executed.
C14_Redelivery ==
  ( /\ state.playingTabId = Tab
    /\ \/ \E m \in delivered.toController : MessageRedelivered(m)
       \/ \E m \in delivered.toPlayer : StartRedelivered(m) )
  => /\ state' = state
     /\ playbackResults' = playbackResults
     /\ loops' = loops

C14_SecondDeliveryChangesNothing == [][C14_Redelivery]_vars

\* ------------------------------------------------------------------ C15
\* Closing the playing tab clears playingTabId and reports
\* PLAYBACK_COMPLETE with success = false and totalSteps = n.
C15_CloseStep ==
  (TabClosed /\ state.playingTabId = Tab)
  => /\ state'.playingTabId = Null
     /\ Len(reports') = Len(reports) + 1
     /\ LET m == reports'[Len(reports')]
        IN  /\ m.type = "PLAYBACK_COMPLETE"
            /\ ~m.success
            /\ m.totalSteps = Len(popup.steps)
     /\ popup'.mode = "idle"

\* A navigation-complete signal that arrives after the tab was closed starts
\* no resumption: it credits no step and begins no probe or injection.
C15_LateSignalStep ==
  (TabComplete /\ tab.closed)
  => /\ reports' = reports
     /\ state' = state
     /\ Len(tasks') = Len(tasks)
     /\ \A t \in 1..Len(tasks) : tasks'[t].kind = tasks[t].kind

\* The session stays ended: playingTabId is null as long as the tab is closed.
C15_Ended == tab.closed => state.playingTabId = Null

C16_Immediate ==
  \A l \in Executing :
    LET step == loops[l].step
    IN  normalise(step) \notin ActionKinds =>
          \A found \in BOOLEAN, isPlaying \in BOOLEAN :
            executeStep(step, found, isPlaying) =
              [ ok |-> FALSE, resolver |-> FALSE, waited |-> FALSE ]

\* Such a step is reported failed; with continueOnError = false
\* PLAYBACK_COMPLETE(false, its index, n) follows and the loop ends, with
\* continueOnError = true the loop goes on to its inter-step delay.
C16_Step ==
  \A l \in 1..Len(loops), found \in BOOLEAN :
    ( /\ PlayStepsExecuted(l, found)
      /\ normalise(loops[l].step) \notin ActionKinds )
    => LET k == loops[l].i + player.indexOffset
           sc == StepCompleteMsg(k, "failed")
           pcm == PlaybackCompleteMsg(FALSE, k, Len(popup.steps))
       IN  IF player.continueOnError
           THEN /\ reports' = Append(reports, sc)
                /\ loops'[l].pc = "delay" /\ loops'[l].i = loops[l].i
           ELSE /\ reports' = reports \o << sc, pcm >>
                /\ loops' = << >>

\* After the delay the next step begins, whatever the outcomes so far, as
\* long as playback was not stopped.
C16_Continue ==
  \A l \in 1..Len(loops) :
    ( /\ PlayStepsDelayed(l)
      /\ player.isPlaying
      /\ loops[l].i + 1 < Len(player.steps) )
    => loops'[l].pc = "exec" /\ loops'[l].i = loops[l].i + 1

\* C16: a step whose trimmed, upper-cased action is not one of the 13 action
\* kinds fails at once, without resolver or wait, and is reported failed; the
\* session then stops or goes on according to continueOnError only.
C16_UnknownActionFails ==
  []C16_Immediate /\ [][C16_Step /\ C16_Continue]_vars

\* An unknown action was reported failed and, with continueOnError, the step
\* after it was executed and reported.
C16_Witness ==
  \E k \in StepIndices :
    /\ normalise(popup.steps[k + 1]) \notin ActionKinds
    /\ ReportedFailed(k)
    /\ popup.continueOnError
    /\ k + 1 \in StepIndices
    /\ StepReports(k + 1) # {}

\* ------------------------------------------------------- resolver properties
\* The positions of the visible matches in the primary document.
MainVisible(selector, doc) ==
  IF unescaped(selector) = "plain"
  THEN { i \in 1..Len(doc.els) : doc.els[i] = "visible" }
  ELSE {}

\* The resolver is about to run a tick that searches the page.
Searching ==
  /\ res.pc = "polling"
  /\ res.elapsed < res.timeout
  /\ res.isPlaying

\* A tick that finds visible matches in the primary document returns the
\* first of them in document order.
C17_Tick ==
  ( Searching /\ MainVisible(res.selector, res.dom) # {} )
  => LET visible == MainVisible(res.selector, res.dom)
         first == CHOOSE i \in visible : \A k \in visible : i <= k
     IN  /\ res'.pc = "returned"
         /\ res'.element = [ path |-> << >>, slot |-> first ]

\* The resolved element is a visible match of the page it was found in.
C17_NoHidden ==
  res.pc = "returned" => res.element \in VisibleMatches(res.selector, res.dom)

\* C17: on every poll tick the resolver returns the first match of the
\* primary document, in document order, that is visible, even if earlier
\* matches are hidden; it never returns a hidden match as the resolved
\* element while a visible one exists in the primary document or an
\* accessible frame.
C17_FirstVisibleMatch == []C17_NoHidden /\ [][C17_Tick]_vars

\* The locator matched two elements of the primary document, the first
\* hidden, and the resolver returned the second.
C17_Witness ==
  /\ res.pc = "returned"
  /\ Len(res.dom.els) = 2
  /\ res.dom.els[1] = "hidden"
  /\ res.element = [ path |-> << >>, slot |-> 2 ]

\* The resolver fails only when its budget is spent, and with the
\* cancellation error only when playback was stopped.
C18_NoEarlyFailure ==
  /\ res.pc \in { "ElementNotVisible", "ElementNotFound" }
       => res.elapsed >= res.timeout
  /\ res.pc = "AbortError" => ~res.isPlaying

\* A tick that searches a page with a visible match, in the primary document
\* or an accessible frame, returns.
C18_Tick ==
  ( Searching /\ VisibleMatches(res.selector, res.dom) # {} )
  => res'.pc = "returned"

\* C18: the resolver never fails before its timeout budget has elapsed
\* (unless playback is cancelled) and returns at the first poll tick that
\* observes a visible match; when matches exist but none is ever visible it
\* fails with the not-visible error only after the budget has elapsed.
C18_FailsOnlyAfterBudget == []C18_NoEarlyFailure /\ [][C18_Tick]_vars

\* Matches that were never visible: the resolver polled more than once and
\* failed with the not-visible error when the budget was spent.
C18_Witness ==
  /\ res.pc = "ElementNotVisible"
  /\ res.ticks >= 2
  /\ res.elapsed >= res.timeout

\* C19: on timeout the resolver fails with ElementNotVisible iff at some poll
\* tick some element matching the locator was observed, in the primary
\* document or in any accessible nested frame, and with ElementNotFound iff
\* no match was observed at any tick.
C19_FailureKindFollowsObservation ==
  /\ res.pc = "ElementNotVisible" => res.observed
  /\ res.pc = "ElementNotFound" => ~res.observed

\* The page with an empty document in place of every inaccessible frame.
RECURSIVE Emptied(_)
Emptied(doc) ==
  [ els |-> doc.els,
    frames |-> [ j \in 1..Len(doc.frames) |->
                   IF doc.frames[j].accessible
                   THEN [ accessible |-> TRUE, doc |-> Emptied(doc.frames[j].doc) ]
                   ELSE [ accessible |-> TRUE,
                          doc |-> [ els |-> << >>, frames |-> << >> ] ] ] ]

\* The search of one tick raises nothing; an inaccessible frame counts as a
\* frame without matches and the frames after it are searched; a locator
\* the engine accepts in unescaped form only is searched in that form; a
\* locator rejected twice matches nothing.
C20_Search ==
  res.pc \in { "polling", "sleeping", "returned" }
  => LET found == findElement(res.selector, res.dom)
     IN  /\ ~found.threw
         /\ found = findElement(res.selector, Emptied(res.dom))
         /\ VisibleMatches(res.selector, res.dom) # {}
              => isVisible(res.dom, found.el)
         /\ res.selector = "escaped" => found = findElement("plain", res.dom)
         /\ res.selector = "malformed" => found.el = NoElement

\* No error of the search leaves the resolver.
C20_NothingRaised == res.pc # "threw"

\* C20: within a resolver tick, an inaccessible (cross-origin) frame and a
\* locator rejected by the query engine never raise an error out of the
\* search: the frame is skipped and the depth-first traversal continues with
\* the remaining frames, the locator is retried once in unescaped form, and
\* a second rejection counts as a non-match for that tick.
C20_SearchErrorsStayInside == C20_Search /\ C20_NothingRaised

\* A locator the engine rejected as written was resolved, in unescaped form,
\* to an element of the frame after an inaccessible one.
C20_Witness ==
  /\ res.pc = "returned"
  /\ res.selector = "escaped"
  /\ Len(res.dom.frames) = 2
  /\ ~res.dom.frames[1].accessible
  /\ res.element.path = << 2 >>

\* ------------------------------------------------------------------ C21
\* The types of the entries of the log, in order.
Types(log) == [ k \in 1..Len(log) |-> log[k].type ]

IsAnchor(element) == element.tagName \in { "A", "a" }

\* C21: CLICK on a resolved element focuses it, then dispatches exactly
\* mousedown, mouseup, click in that order, and afterwards invokes the
\* element's native activation if and only if the element is not an anchor.
C21_ClickSequence ==
  ( act.pc \in { "done", "threw" } /\ act.action = "CLICK" )
  => /\ act.pc = "done"
     /\ Types(act.log) =
          << "focus()", "mousedown", "mouseup", "click" >>
            \o ( IF IsAnchor(act.before) THEN << >> ELSE << "click()" >> )

\* CLICK has run on an anchor written in upper case, as HTML reports it.
C21_Witness ==
  /\ act.pc = "done"
  /\ act.action = "CLICK"
  /\ act.before.tagName = "A"
  /\ Len(act.log) = 4

\* ------------------------------------------------------------------ C22
\* The element is a text field: an input or a textarea.
IsField(element) == element.tagName \in { "INPUT", "TEXTAREA" }

\* TYPE_CHAR that ran to its end logged, after focus and the clearing input,
\* for the k-th character keydown with the first k-1 characters in the field,
\* then input and keyup with the first k characters in it, and last change
\* and blur; the field then holds the value.
C22_Typed ==
  ( act.pc # "idle" /\ act.action = "TYPE_CHAR" /\ IsField(act.before) )
  => /\ act.pc # "threw"
     /\ act.pc = "done"
          => /\ Len(act.log) = 3 + 3 * Len(act.value) + 2
             /\ \A k \in 1..Len(act.value) :
                  LET at == 3 + 3 * (k - 1)
                  IN  /\ act.log[at + 1].type = "keydown"
                      /\ act.log[at + 1].key = act.value[k]
                      /\ act.log[at + 1].value = SubSeq(act.value, 1, k - 1)
                      /\ act.log[at + 2].type = "input"
                      /\ act.log[at + 2].value = SubSeq(act.value, 1, k)
                      /\ act.log[at + 3].type = "keyup"
                      /\ act.log[at + 3].key = act.value[k]
                      /\ act.log[at + 3].value = SubSeq(act.value, 1, k)
             /\ act.log[Len(act.log) - 1].type = "change"
             /\ act.log[Len(act.log)].type = "blur"
             /\ act.log[Len(act.log)].value = act.value
             /\ act.element.value = act.value

\* Once playback is stopped, no keydown, input or keyup is dispatched.
C22_Stopped ==
  ( act.pc # "idle" /\ act.action = "TYPE_CHAR" /\ ~act.isPlaying )
  => \A k \in (Len(act.log) + 1)..Len(act'.log) :
       act'.log[k].type \notin { "keydown", "input", "keyup" }

\* C22: TYPE_CHAR(value) dispatches, for each character i of value in order,
\* keydown, then sets the field to the first i+1 characters, then input, then
\* keyup; after the last character it dispatches change then blur and the
\* field value equals value; once playback is stopped between characters no
\* further character events are dispatched.
C22_TypeCharSequence == []C22_Typed /\ [][C22_Stopped]_vars

\* Two characters were typed into a field that held something else.
C22_Witness ==
  /\ act.pc = "done"
  /\ act.action = "TYPE_CHAR"
  /\ Len(act.value) = 2
  /\ act.before.value # << >>
  /\ act.element.value = act.value

\* ------------------------------------------------------------------ C23
\* C23: TYPE(value) leaves the field's value equal to value, and CLEAR
\* leaves it equal to the empty string; each dispatches input, change and
\* blur exactly once, in that order, after the value has been set.
C23_TypeAndClear ==
  ( act.pc \in { "done", "threw" } /\ act.action \in { "TYPE", "CLEAR" }
    /\ IsField(act.before) )
  => LET final == IF act.action = "TYPE" THEN act.value ELSE << >>
         n == Len(act.log)
     IN  /\ act.pc = "done"
         /\ act.element.value = final
         /\ n >= 3
         /\ << act.log[n - 2].type, act.log[n - 1].type, act.log[n].type >>
              = << "input", "change", "blur" >>
         /\ \A k \in (n - 2)..n : act.log[k].value = final
         /\ \A k \in 1..(n - 3) :
              act.log[k].type \notin { "input", "change", "blur" }

\* TYPE has replaced the text of a textarea by another one.
C23_Witness ==
  /\ act.pc = "done"
  /\ act.action = "TYPE"
  /\ act.before.tagName = "TEXTAREA"
  /\ act.before.value # << >>
  /\ act.value # << >>
  /\ act.element.value = act.value
  /\ act.before.value # act.value

\* ------------------------------------------------------------------ C24
\* CHECK or UNCHECK has just run on the element, for the first or the second
\* time.
Checked == act.pc = "done" /\ act.action \in { "CHECK", "UNCHECK" }

\* The state the action asks for.
Desired == act.action = "CHECK"

\* The run left the desired state and wrote it only if the element was in
\* the other state before the first run.
C24_State ==
  Checked
  => /\ act.element.checked = Desired
     /\ ( \E k \in 1..Len(act.log) : act.log[k].type = "checked=" )
          => ( act.i = 1 /\ act.before.checked # Desired )

\* The second run leaves the checked state of the first.
C24_Twice ==
  ( Checked /\ act.i = 1 ) => act'.element.checked = act.element.checked

\* Every run ends with change followed by input.
C24_AlwaysDispatched ==
  Checked
  => LET n == Len(act.log)
     IN  /\ n >= 2
         /\ act.log[n - 1].type = "change"
         /\ act.log[n].type = "input"

\* A run that wrote the state dispatched change then input after the write,
\* and a run that found the desired state dispatched nothing.
C24_DispatchedIffWritten ==
  Checked
  => Types(act.log) =
       IF act.i = 1 /\ act.before.checked # Desired
       THEN << "checked=", "change", "input" >>
       ELSE << >>

\* C24: CHECK (UNCHECK) leaves the target's checked state true (false),
\* writes the state only when it differs from the desired one, then
\* dispatches change followed by input; applying the same action twice
\* leaves the same checked state as applying it once.
C24_CheckDispatchesEveryTime ==
  []C24_State /\ []C24_AlwaysDispatched /\ [][C24_Twice]_vars

\* C24 as amended: change and input follow the write and only the write.
C24_CheckDispatchesOnWrite ==
  []C24_State /\ []C24_DispatchedIffWritten /\ [][C24_Twice]_vars

\* UNCHECK ran twice on a checked element: the first run wrote, the second
\* found the element unchecked.
C24_Witness ==
  /\ Checked
  /\ act.action = "UNCHECK"
  /\ act.before.checked
  /\ act.i = 2
  /\ ~act.element.checked
  /\ act.log = << >>

\* ------------------------------------------------------------------ C25
\* The options of the target whose value is the value of the step, and those
\* whose text or value is that value up to case.
ExactOptions ==
  { k \in 1..Len(act.before.options) : act.before.options[k].value = act.value }

CaselessOptions ==
  { k \in 1..Len(act.before.options) :
      \/ toLowerCase(act.before.options[k].text) = toLowerCase(act.value)
      \/ toLowerCase(act.before.options[k].value) = toLowerCase(act.value) }

\* C25: SELECT(value) on a selection control selects the option whose value
\* equals value exactly; only if there is none, it selects an option whose
\* text or value equals value case-insensitively; it then dispatches change.
\* On a target that is not a selection control it fails with a precondition
\* error.
C25_SelectMatches ==
  ( act.pc \in { "done", "threw" } /\ act.action = "SELECT" )
  => IF act.before.tagName # "SELECT"
     THEN act.pc = "threw" /\ act.log = << >> /\ act.element = act.before
     ELSE /\ act.pc = "done"
          /\ act.log[Len(act.log)].type = "change"
          /\ ExactOptions # {} => act.element.selectedIndex \in ExactOptions
          /\ ( ExactOptions = {} /\ CaselessOptions # {} )
               => act.element.selectedIndex \in CaselessOptions
          /\ ExactOptions = {}
               => act.element.selectedIndex \in CaselessOptions \cup { 0 }

\* ------------------------------------------------------------------ C26
\* generateSelector has returned for an element.
Generated ==
  /\ gen.pc = "done"
  /\ gen.fn = "generateSelector"
  /\ gen.element.kind = "element"

\* The rule whose template the selector was built with.
Rule == gen.selector.template

C27_ElementMatchesItsLocator ==
  Generated /\ gen.element.chain # << >>
  => matches(gen.element, gen.selector)

\* ------------------------------------------------------------------ C28
\* C28: generateSelector is total: it returns the empty string only for a
\* null element or an object without a tag name, and a non-empty locator
\* for every real element.
C28_Total ==
  gen.pc = "done" /\ gen.fn = "generateSelector"
  => ( gen.selector = EmptyString <=> gen.element.kind # "element" )

\* A real element that no attribute and no label identifies, detached from
\* any document, got a locator; null got the empty string.
C28_Witness ==
  /\ Generated
  /\ gen.element.chain = << >>
  /\ Rule = "${path.join(' > ')}"
  /\ Len(gen.selector.path) = 1

\* ------------------------------------------------------------------ C29
\* isValidId has returned for an id.
Validated == gen.pc = "done" /\ gen.fn = "isValidId"

\* The id has n digits in a row, n hex digits in a row, digits only, the
\* given text at its start, the given text at its start and then a digit.
DigitsInARow(id, n) ==
  \E i \in 1..Len(id) :
    i + n - 1 <= Len(id) /\ \A j \in 0..(n - 1) : id[i + j] \in Digit

HexInARow(id, n) ==
  \E i \in 1..Len(id) :
    i + n - 1 <= Len(id) /\ \A j \in 0..(n - 1) : id[i + j] \in HexDigit

Numeric(id) == Len(id) >= 1 /\ \A i \in 1..Len(id) : id[i] \in Digit

BeginsWith(id, text) ==
  Len(id) >= Len(text) /\ \A i \in 1..Len(text) : id[i] = text[i]

BeginsWithThenDigit(id, text) ==
  /\ BeginsWith(id, text)
  /\ Len(id) > Len(text)
  /\ id[Len(text) + 1] \in Digit

\* The verdicts on the five ids named in the claim.
C29_Examples ==
  /\ gen.word = << "1", "2", "3", "4", "5" >> => ~gen.result
  /\ gen.word = << "r", ":", "1", "2", "3" >> => ~gen.result
  /\ gen.word = << "a", "1", "b", "2", "c", "3", "d", "4", "e", "5" >>
       => ~gen.result
  /\ gen.word = << "m", "y", "-", "i", "d" >> => gen.result
  /\ gen.word = << "h", "e", "a", "d", "e", "r" >> => gen.result

\* C29 as stated: isValidId rejects every id that contains 3 or more
\* consecutive digits, contains a hex run of length >= 8, is purely numeric,
\* or begins with a generated-id prefix (r:, :r, ng-, react-, ember<N>), and
\* accepts every id matching none of these; "12345", "r:123" and
\* "a1b2c3d4e5" are rejected, "my-id" and "header" are accepted.
C29_RejectsEveryPrefix ==
  Validated
  => /\ C29_Examples
     /\ ~gen.result <=>
          \/ DigitsInARow(gen.word, 3)
          \/ HexInARow(gen.word, 8)
          \/ Numeric(gen.word)
          \/ BeginsWith(gen.word, << "r", ":" >>)
          \/ BeginsWith(gen.word, << ":", "r" >>)
          \/ BeginsWith(gen.word, << "n", "g", "-" >>)
          \/ BeginsWith(gen.word, << "r", "e", "a", "c", "t", "-" >>)
          \/ BeginsWithThenDigit(gen.word, << "e", "m", "b", "e", "r" >>)

\* C29 as amended: isValidId rejects every id that contains 3 or more
\* consecutive digits, contains a hex run of length >= 8, is purely numeric,
\* or begins with a generated-id prefix (r: followed by a digit, :r, ng-,
\* react-, ember<N>), and accepts every non-empty id matching none of these;
\* "12345", "r:123" and "a1b2c3d4e5" are rejected, "my-id" and "header" are
\* accepted.
C29_RejectsGeneratedIds ==
  Validated
  => /\ C29_Examples
     /\ ( \/ DigitsInARow(gen.word, 3)
          \/ HexInARow(gen.word, 8)
          \/ Numeric(gen.word)
          \/ BeginsWithThenDigit(gen.word, << "r", ":" >>)
          \/ BeginsWith(gen.word, << ":", "r" >>)
          \/ BeginsWith(gen.word, << "n", "g", "-" >>)
          \/ BeginsWith(gen.word, << "r", "e", "a", "c", "t", "-" >>)
          \/ BeginsWithThenDigit(gen.word, << "e", "m", "b", "e", "r" >>) )
          => ~gen.result
     /\ ~gen.result /\ gen.word # << >>
          => \/ DigitsInARow(gen.word, 3)
             \/ HexInARow(gen.word, 8)
             \/ Numeric(gen.word)
             \/ BeginsWithThenDigit(gen.word, << "r", ":" >>)
             \/ BeginsWith(gen.word, << ":", "r" >>)
             \/ BeginsWith(gen.word, << "n", "g", "-" >>)
             \/ BeginsWith(gen.word, << "r", "e", "a", "c", "t", "-" >>)
             \/ BeginsWithThenDigit(gen.word, << "e", "m", "b", "e", "r" >>)

\* An id that begins with r: and goes on with something else than a digit
\* was accepted.
C29_Witness ==
  /\ Validated
  /\ BeginsWith(gen.word, << "r", ":" >>)
  /\ ~BeginsWithThenDigit(gen.word, << "r", ":" >>)
  /\ Len(gen.word) > 2
  /\ gen.result

\* ------------------------------------------------------------------ C30
\* C30: no class name classified dynamic by isDynamicClass ever appears in a
\* generated structural path; "css-1a2b3c" and "sc-abcdef" are classified
\* dynamic, "btn-primary" and "container" are not.
C30_NoDynamicClassInPath ==
  /\ Generated /\ Rule = "${path.join(' > ')}"
       => \A k \in 1..Len(gen.selector.path) :
            \A c \in 1..Len(gen.selector.path[k].classes) :
              ~isDynamicClass(gen.selector.path[k].classes[c])
  /\ gen.pc = "done" /\ gen.fn = "isDynamicClass"
       => /\ gen.word = << "c", "s", "s", "-", "1", "a", "2", "b", "3", "c" >>
               => gen.result
          /\ gen.word = << "s", "c", "-", "a", "b", "c", "d", "e", "f" >>
               => gen.result
          /\ gen.word = << "b", "t", "n", "-", "p", "r", "i", "m", "a", "r", "y" >>
               => ~gen.result
          /\ gen.word = << "c", "o", "n", "t", "a", "i", "n", "e", "r" >>
               => ~gen.result

\* A structural path was generated for an element whose first class is
\* dynamic and whose second is not: the path names the second only.
C30_Witness ==
  /\ Generated
  /\ Rule = "${path.join(' > ')}"
  /\ Len(gen.element.classList) = 2
  /\ isDynamicClass(gen.element.classList[1])
  /\ ~isDynamicClass(gen.element.classList[2])
  /\ gen.selector.path[Len(gen.selector.path)].classes
       = << gen.element.classList[2] >>

\* ------------------------------------------------------------------ C31
\* generateSelector has returned a structural path.
PathGenerated == Generated /\ Rule = "${path.join(' > ')}"

\* The element or ancestor that segment k of the returned path stands for:
\* the last segment for the element, the one before for its parent.
SegmentNode(k) ==
  ( << [ tagName |-> gen.element.tagName,
         classList |-> gen.element.classList,
         siblings |-> gen.element.siblings,
         index |-> gen.element.index ] >> \o gen.element.chain )
    [ Len(gen.selector.path) - k + 1 ]

\* The places, among the children of the node's parent, of those with the
\* node's tag.
SameTag(node) ==
  { i \in 1..Len(node.siblings) : node.siblings[i] = node.tagName }

\* The shape of the path: at most 4 segments, the last one the element, none
\* above body, at most 2 class names each, an index iff the tag is shared.
C31_Shape ==
  LET path == gen.selector.path
  IN  /\ Len(path) \in 1..4
      /\ Len(path) <= 1 + Len(gen.element.chain)
      /\ path[Len(path)].tag = tagNameLower(gen.element)
      /\ \A k \in 1..Len(path) :
           /\ path[k].tag = tagNameLower(SegmentNode(k))
           /\ path[k].tag = "body" => k = 1
           /\ Len(path[k].classes) <= 2
           /\ path[k].nth # 0 <=> Cardinality(SameTag(SegmentNode(k))) > 1

\* C31 as stated: the structural fallback path has at most 4 segments, its
\* last segment is the element itself, it never climbs above body, each
\* segment carries at most 2 class names, and a segment gets a positional
\* index iff more than one sibling shares its tag, the index being the
\* element's 1-based position among its same-tag siblings.
C31_IndexAmongSameTag ==
  PathGenerated
  => /\ C31_Shape
     /\ \A k \in 1..Len(gen.selector.path) :
          gen.selector.path[k].nth # 0
          => gen.selector.path[k].nth =
               Cardinality({ i \in SameTag(SegmentNode(k)) :
                             i <= SegmentNode(k).index })

\* C31 as amended: the structural fallback path has at most 4 segments, its
\* last segment is the element itself, it never climbs above body, each
\* segment carries at most 2 class names, and a segment gets a positional
\* index iff more than one sibling shares its tag, the index being the
\* element's 1-based position among all children of its parent.
C31_IndexAmongChildren ==
  PathGenerated
  => /\ C31_Shape
     /\ \A k \in 1..Len(gen.selector.path) :
          gen.selector.path[k].nth # 0
          => gen.selector.path[k].nth = SegmentNode(k).index

\* A path of 4 segments was cut short of body, and its last segment carries
\* the element's place among all children, which is not its place among
\* those of its tag.
C31_Witness ==
  /\ PathGenerated
  /\ Len(gen.selector.path) = 4
  /\ Len(gen.element.chain) > 3
  /\ gen.selector.path[4].nth = 3
  /\ Cardinality(SameTag(SegmentNode(4))) = 2

\* ------------------------------------------------------------------ C39
\* The id in a returned locator, if it has one.
LocatorId == gen.selector.id

\* C39: no locator returned by generateSelector contains an id that the
\* stability filter (isValidId) rejects, whichever priority rule produced
\* the locator.
C39_NoRejectedIdInLocator ==
  Generated /\ LocatorId # << >> => isValidId(LocatorId)

\* ------------------------------------------------------------------ C32
\* The fields of the exported steps.
ExportedFields ==
  UNION { { csv.exported[k].action, csv.exported[k].target,
            csv.exported[k].value, csv.exported[k].description } :
          k \in 1..Len(csv.exported) }

\* The field begins or ends with white space or a line break.
Padded(field) ==
  /\ field # << >>
  /\ \/ field[1] \in { " ", "\t", "\n", "\r" }
     \/ field[Len(field)] \in { " ", "\t", "\n", "\r" }

\* The field begins with a single quote and then =, +, - or @, as a guarded
\* field does in the file.
LooksGuarded(field) ==
  Len(field) >= 2 /\ field[1] = "'" /\ field[2] \in { "=", "+", "-", "@" }

C33_NoStepLost ==
  store.handlers = {} /\ store.toPopup = << >>
  => store.r3Steps = [ k \in 1..(store.recorded + 1) |-> k - 1 ]

\* ------------------------------------------------------------------ C34
\* C34: PLAYBACK_COMPLETE carries success=true only if no STEP_COMPLETE with
\* status failed was reported for any step of the session, including
\* sessions with continueOnError=true that were resumed after a navigation
\* teardown.
C34_SuccessMeansNoFailedStep ==
  \A j \in CompleteReports :
    reports[j].success
    => \A i \in 1..(j - 1) :
         ~( reports[i].type = "STEP_COMPLETE" /\ reports[i].status = "failed" )

\* ------------------------------------------------------------------ C35
\* After the stop no player starts playing, no step loop begins and no
\* activation begins to execute a step.
C35_Step ==
  stopped /\ stopped'
  => /\ player'.isPlaying => player.isPlaying
     /\ Len(loops') <= Len(loops)
     /\ \A l \in 1..Len(loops') :
          loops'[l].pc = "exec"
          => \E m \in 1..Len(loops) :
               loops[m].pc = "exec" /\ loops[m].i = loops'[l].i

\* C35: once the controller has handled STOP_PLAYBACK, no player is started
\* and no further step is executed for that session, even when the stop
\* arrives while startPlayback is still awaiting the initial OPEN
\* navigation, the tab load or the script injection.
C35_StopCancelsSetup == [][C35_Step]_vars

\* ------------------------------------------------------------------ C36
\* C36: each session reports at most one PLAYBACK_COMPLETE and no
\* STEP_COMPLETE after it, under every interleaving of player reports,
\* navigation-complete handlers, explicit stop and tab removal.
C36_OneCompletionAndNothingAfter ==
  /\ Cardinality(CompleteReports) <= 1
  /\ \A j \in CompleteReports : j = Len(reports)

\* ------------------------------------------------------------------ C37
\* A step the controller credits after its probe is the step that was in
\* flight when the page was torn down.
C37_Credit ==
  \A t \in 1..Len(tasks) :
    ProbeSettled(t) /\ Len(reports') > Len(reports)
    => reports'[Len(reports) + 1] = StepCompleteMsg(torn, "success")

\* C37: a step is reported success only if a player started executing it:
\* the controller credits success without a player report only to the step
\* that was in flight when the page was torn down, never to a step that no
\* player had begun.
C37_CreditOnlyTheStepInFlight == [][C37_Credit]_vars

\* ------------------------------------------------------------------ C38
\* C38: whenever PLAYBACK_COMPLETE carries success = false with
\* failedStep = f >= 0, step f was not reported success in that session:
\* f names a step reported failed or a step that could not be started.
C38_FailedStepNotReportedSuccess ==
  \A j \in CompleteReports :
    ~reports[j].success /\ reports[j].failedStep >= 0
    => ~ReportedSuccess(reports[j].failedStep)

\* ------------------------------------------------------------------ C40
\* A START_PLAYBACK message reaches the listener of a player that is playing.
StartReceivedWhilePlaying ==
  /\ player.isPlaying
  /\ \/ \E m \in delivered.toPlayer : StartRedelivered(m)
     \/ \E t \in 1..Len(tasks) : player.exists /\ SendStartPlayback(t)

C40_Start ==
  StartReceivedWhilePlaying
  => /\ player' = player
     /\ loops' = loops
     /\ queue' = queue
     /\ reports' = reports

\* C40: a START_PLAYBACK received by a player that is already playing changes
\* nothing: its steps, cursor, continueOnError, indexOffset and isPlaying are
\* unchanged and no second step loop is started.
C40_StartWhilePlayingChangesNothing == [][C40_Start]_vars

\* A second START_PLAYBACK has reached a player that has been playing since
\* the first one: no step was reported yet and one step loop runs.
C40_Witness ==
  /\ delivered.again = 1
  /\ delivered.toController = {}
  /\ reports = << >>
  /\ player.isPlaying
  /\ Len(loops) = 1

====
